---- MODULE Spec2Model ----
(***************************************************************************)
(* A model of src/main.py: the AgentMemory store, the UI-tree queries of   *)
(* ADBTools, the Executor's action resolution and the run_test_case        *)
(* control loop, together with the properties claimed of them.             *)
(*                                                                         *)
(* Text is modelled by TLA+ strings; the Python string operations the code *)
(* uses (lower, strip, in, slicing, concatenation) are computed character  *)
(* by character.                                                           *)
(***************************************************************************)
EXTENDS Integers, Sequences, FiniteSets, TLC

\* ------------------------------------------------------------------------
\* Python values
\* ------------------------------------------------------------------------

\* Python's None.
None == [none |-> TRUE]

\* the least element of a non-empty set of integers
Least(S) == CHOOSE i \in S : \A j \in S : i <= j

\* ------------------------------------------------------------------------
\* Python string operations
\* ------------------------------------------------------------------------

\* str.lower() on one character
LowerChar(c) ==
  CASE c = "A" -> "a" [] c = "B" -> "b" [] c = "C" -> "c" [] c = "D" -> "d"
    [] c = "E" -> "e" [] c = "F" -> "f" [] c = "G" -> "g" [] c = "H" -> "h"
    [] c = "I" -> "i" [] c = "J" -> "j" [] c = "K" -> "k" [] c = "L" -> "l"
    [] c = "M" -> "m" [] c = "N" -> "n" [] c = "O" -> "o" [] c = "P" -> "p"
    [] c = "Q" -> "q" [] c = "R" -> "r" [] c = "S" -> "s" [] c = "T" -> "t"
    [] c = "U" -> "u" [] c = "V" -> "v" [] c = "W" -> "w" [] c = "X" -> "x"
    [] c = "Y" -> "y" [] c = "Z" -> "z" [] OTHER -> c

RECURSIVE Lower(_)
\* s.lower()
Lower(s) ==
  IF Len(s) = 0 THEN ""
  ELSE LowerChar(SubSeq(s, 1, 1)) \o Lower(SubSeq(s, 2, Len(s)))

\* Python's whitespace, as far as the modelled texts use it
IsSpace(c) == c \in {" ", "\n", "\t"}

RECURSIVE LStrip(_)
LStrip(s) ==
  IF Len(s) > 0 /\ IsSpace(SubSeq(s, 1, 1)) THEN LStrip(SubSeq(s, 2, Len(s)))
  ELSE s

RECURSIVE RStrip(_)
RStrip(s) ==
  IF Len(s) > 0 /\ IsSpace(SubSeq(s, Len(s), Len(s)))
  THEN RStrip(SubSeq(s, 1, Len(s) - 1))
  ELSE s

\* s.strip()
Strip(s) == RStrip(LStrip(s))

\* needle in hay
Contains(hay, needle) ==
  \E i \in 0..(Len(hay) - Len(needle)) : SubSeq(hay, i + 1, i + Len(needle)) = needle

\* s.startswith(p), s.endswith(p)
StartsWith(s, p) == Len(p) <= Len(s) /\ SubSeq(s, 1, Len(p)) = p
EndsWith(s, p) == Len(p) <= Len(s) /\ SubSeq(s, Len(s) - Len(p) + 1, Len(s)) = p

\* s[:n]
Prefix(s, n) == SubSeq(s, 1, IF Len(s) < n THEN Len(s) ELSE n)

\* a log that is never truncated
KeepAll(seq, n) == seq

\* seq[-n:]
LastN(seq, n) == IF Len(seq) <= n THEN seq ELSE SubSeq(seq, Len(seq) - n + 1, Len(seq))

\* any(kw in text for kw in kws)
ContainsAny(text, kws) == \E kw \in kws : Contains(text, kw)

\* ------------------------------------------------------------------------
\* Python dicts: a sequence of [key, val] pairs in insertion order, no key twice
\* ------------------------------------------------------------------------

DictHas(d, k) == \E i \in 1..Len(d) : d[i].key = k

DictGet(d, k, default) ==
  IF DictHas(d, k) THEN d[CHOOSE i \in 1..Len(d) : d[i].key = k].val ELSE default

\* d[k] = v: an existing key keeps its place, a new key goes last
DictSet(d, k, v) ==
  IF DictHas(d, k)
  THEN [i \in 1..Len(d) |-> IF d[i].key = k THEN [key |-> k, val |-> v] ELSE d[i]]
  ELSE Append(d, [key |-> k, val |-> v])

\* del d[k]
DictDel(d, k) == SelectSeq(d, LAMBDA e : e.key # k)

DictKeys(d) == {d[i].key : i \in 1..Len(d)}

\* dict.update: the keys of src overwrite those of dst
RECURSIVE DictUpdate(_, _)
DictUpdate(dst, src) ==
  IF Len(src) = 0 THEN dst
  ELSE DictUpdate(DictSet(dst, src[1].key, src[1].val), Tail(src))

\* ------------------------------------------------------------------------
\* AgentMemory (src/main.py 72-197)
\*
\* A memory m is [data |-> the record self.data, file |-> the JSON document
\* agent_memory.json (None when the file does not exist), clock |-> the number
\* of timestamps taken so far, which models time.strftime]. element_locations
\* and session_context are dicts; the two logs are sequences. A method is an
\* operator from the memory before the call to the memory after it.
\* ------------------------------------------------------------------------

\* AgentMemory.__init__: self.data before load()
DefaultData ==
  [element_locations |-> <<>>,
   successful_actions |-> <<>>,
   failed_actions |-> <<>>,
   app_knowledge |-> <<>>,
   session_context |-> <<>>]

DataKeys == {"element_locations", "successful_actions", "failed_actions",
             "app_knowledge", "session_context"}

\* AgentMemory.load: self.data.update(saved) when the file exists
load(f) ==
  IF f = None THEN DefaultData
  ELSE [k \in DataKeys |-> IF k \in DOMAIN f THEN f[k] ELSE DefaultData[k]]

\* a save that writes nothing
SaveNothing(m) == m

\* AgentMemory.save: json.dump(self.data) replaces the document. The write is
\* taken to succeed: save catches and prints a failure of the file system.
save(m) == [m EXCEPT !.file = m.data]

\* time.strftime: the next timestamp
Stamp(m) == [m EXCEPT !.clock = @ + 1]

\* a remember_element_location that stores the name as it is given
RememberRaw(m, element_name, x, y, context) ==
  save([Stamp(m) EXCEPT !.data.element_locations =
          DictSet(@, element_name, [x |-> x, y |-> y, context |-> context,
                                    found_at |-> Stamp(m).clock])])

\* AgentMemory.remember_element_location
remember_element_location(m, element_name, x, y, context) ==
  LET key == Strip(Lower(element_name))
      t == Stamp(m)
  IN save([t EXCEPT !.data.element_locations =
             DictSet(@, key, [x |-> x, y |-> y, context |-> context,
                              found_at |-> t.clock])])

\* a recall that looks the normalized name up as a key
RecallExact(m, element_name) ==
  IF DictHas(m.data.element_locations, Strip(Lower(element_name)))
  THEN [x |-> DictGet(m.data.element_locations, Strip(Lower(element_name)), None).x,
        y |-> DictGet(m.data.element_locations, Strip(Lower(element_name)), None).y]
  ELSE None

\* AgentMemory.recall_element_location: the first stored key, in the dict's
\* order, that contains the query or is contained in it
recall_element_location(m, element_name) ==
  LET key == Strip(Lower(element_name))
      locs == m.data.element_locations
      hits == {i \in 1..Len(locs) :
                 Contains(locs[i].key, key) \/ Contains(key, locs[i].key)}
  IN IF hits = {} THEN None
     ELSE [x |-> locs[Least(hits)].val.x, y |-> locs[Least(hits)].val.y]

\* Keep only last 100 actions / last 50 failures
SuccessCap == 100
FailureCap == 50

\* AgentMemory.remember_successful_action
remember_successful_action(m, action, screen_context) ==
  LET t == Stamp(m)
  IN save([t EXCEPT !.data.successful_actions =
             LastN(Append(@, [action |-> action, context |-> screen_context,
                              time |-> t.clock]),
                   SuccessCap)])

\* a failure that evicts nothing
EvictNothing(locs, action) == locs

\* the gear/settings eviction of remember_failed_action
EvictGear(locs, action) ==
  IF Contains(Lower(action), "gear") \/ Contains(Lower(action), "settings")
  THEN DictDel(DictDel(locs, "gear"), "settings")
  ELSE locs

\* AgentMemory.remember_failed_action
remember_failed_action(m, action, screen_context, reason) ==
  LET t == Stamp(m)
  IN save([t EXCEPT !.data.failed_actions =
                      LastN(Append(@, [action |-> action, context |-> screen_context,
                                       reason |-> reason, time |-> t.clock]),
                            FailureCap),
                    !.data.element_locations = EvictGear(@, action)])

\* AgentMemory.forget_element: it deletes and saves only when the key is stored
forget_element(m, element_name) ==
  LET key == Strip(Lower(element_name))
  IN IF DictHas(m.data.element_locations, key)
     THEN save([m EXCEPT !.data.element_locations = DictDel(@, key)])
     ELSE m

\* AgentMemory.set_session_context (no save)
set_session_context(m, key, value) ==
  [m EXCEPT !.data.session_context = DictSet(@, key, value)]

\* AgentMemory.get_session_context
get_session_context(m, key, default) == DictGet(m.data.session_context, key, default)

\* a clear_session that clears nothing
ClearNothing(m) == m

\* AgentMemory.clear_session (no save)
clear_session(m) == [m EXCEPT !.data.session_context = <<>>]

\* ------------------------------------------------------------------------
\* The UI hierarchy dump (ADBTools.dump_ui_xml and the queries over it)
\*
\* A dump is [kind |-> "none"] (the shell call failed or returned nothing),
\* [kind |-> "bad"] (text that ET.fromstring rejects) or
\* [kind |-> "xml", nodes |-> the elements in document order (root.iter())].
\* A node carries its attributes as strings; an absent attribute is "".
\* kids is the number of child elements of the node.
\* ------------------------------------------------------------------------

Node(text, desc, class, rid, bounds, clickable, checkable, kids) ==
  [text |-> text, desc |-> desc, class |-> class, rid |-> rid, bounds |-> bounds,
   clickable |-> clickable, checkable |-> checkable, kids |-> kids]

IsDigit(c) == c \in {"0", "1", "2", "3", "4", "5", "6", "7", "8", "9"}

DigitVal(c) ==
  CASE c = "0" -> 0 [] c = "1" -> 1 [] c = "2" -> 2 [] c = "3" -> 3 [] c = "4" -> 4
    [] c = "5" -> 5 [] c = "6" -> 6 [] c = "7" -> 7 [] c = "8" -> 8 [] c = "9" -> 9

RECURSIVE ToInt(_)
\* int(s) of a string of decimal digits
ToInt(s) ==
  IF Len(s) = 0 THEN 0
  ELSE 10 * ToInt(SubSeq(s, 1, Len(s) - 1)) + DigitVal(SubSeq(s, Len(s), Len(s)))

RECURSIVE DigitsEnd(_, _)
\* the position after the longest run of digits that starts at p (\d+ is greedy)
DigitsEnd(s, p) ==
  IF p <= Len(s) /\ IsDigit(SubSeq(s, p, p)) THEN DigitsEnd(s, p + 1) ELSE p

\* the literal lit stands at position p of s
LitAt(s, p, lit) == p + Len(lit) - 1 <= Len(s) /\ SubSeq(s, p, p + Len(lit) - 1) = lit

RECURSIVE GroupEnds(_, _, _)
\* the positions after the greedy \d+ groups, each group starting gaps[k]
\* characters after the end of the group before it (p for the first)
GroupEnds(s, p, gaps) ==
  IF Len(gaps) = 0 THEN <<>>
  ELSE <<DigitsEnd(s, p + gaps[1])>> \o GroupEnds(s, DigitsEnd(s, p + gaps[1]), Tail(gaps))

\* the match of the pattern whose groups end before the positions e
BoundsGroups(s, e) ==
  IF /\ LitAt(s, 1, "[") /\ e[1] > 2
     /\ LitAt(s, e[1], ",") /\ e[2] > e[1] + 1
     /\ LitAt(s, e[2], "][") /\ e[3] > e[2] + 2
     /\ LitAt(s, e[3], ",") /\ e[4] > e[3] + 1
     /\ LitAt(s, e[4], "]")
  THEN [x1 |-> ToInt(SubSeq(s, 2, e[1] - 1)), y1 |-> ToInt(SubSeq(s, e[1] + 1, e[2] - 1)),
        x2 |-> ToInt(SubSeq(s, e[2] + 2, e[3] - 1)),
        y2 |-> ToInt(SubSeq(s, e[3] + 1, e[4] - 1))]
  ELSE None

\* re.match(r"\[(\d+),(\d+)\]\[(\d+),(\d+)\]", s) and map(int, m.groups()):
\* None when there is no match at the start of s
ParseBounds(s) == BoundsGroups(s, GroupEnds(s, 1, <<1, 1, 2, 1>>))

\* found, or prev when nothing was found
OrElse(found, prev) == IF found = None THEN prev ELSE found

\* the first element of seq that is not None; None when there is none
FirstSome(seq) ==
  IF \A i \in 1..Len(seq) : seq[i] = None THEN None
  ELSE seq[Least({i \in 1..Len(seq) : seq[i] # None})]

\* for node in root.iter(): the bounds of the first node that satisfies Match
\* and whose bounds attribute parses; None when there is none
FirstBounds(nodes, Match(_)) ==
  FirstSome([i \in 1..Len(nodes) |->
               IF Match(nodes[i]) THEN ParseBounds(nodes[i].bounds) ELSE None])

\* for keyword in keywords: for node in root.iter(): first hit of Match(keyword, node)
FirstBoundsByKeyword(keywords, nodes, Match(_, _)) ==
  FirstSome([k \in 1..Len(keywords) |->
               FirstBounds(nodes, LAMBDA n : Match(keywords[k], n))])

\* ADBTools.find_bounds_by_text
find_bounds_by_text(xml, needle) ==
  IF xml.kind # "xml" THEN None
  ELSE FirstBounds(xml.nodes,
         LAMBDA n : Contains(Lower(n.text \o " " \o n.desc), Lower(needle)))

\* a find_bounds_by_keywords that tries the four matches keyword by keyword
KeywordsFirst(xml, keywords) ==
  IF xml.kind # "xml" THEN None
  ELSE
    FirstSome([k \in 1..Len(keywords) |->
      FirstSome(<<
        FirstBounds(xml.nodes, LAMBDA n : Lower(Strip(n.text)) = Lower(keywords[k])),
        FirstBounds(xml.nodes, LAMBDA n : Lower(Strip(n.desc)) = Lower(keywords[k])),
        FirstBounds(xml.nodes,
          LAMBDA n : Contains(Lower(Strip(n.text)), Lower(keywords[k]))),
        FirstBounds(xml.nodes, LAMBDA n : Contains(Lower(n.desc), Lower(keywords[k])))>>)])

\* ADBTools.find_bounds_by_keywords: exact text, exact content-desc,
\* text contains, content-desc contains
find_bounds_by_keywords(xml, keywords) ==
  IF xml.kind # "xml" THEN None
  ELSE
    FirstSome(<<
      FirstBoundsByKeyword(keywords, xml.nodes,
        LAMBDA kw, n : Lower(Strip(n.text)) = Lower(kw)),
      FirstBoundsByKeyword(keywords, xml.nodes,
        LAMBDA kw, n : Lower(Strip(n.desc)) = Lower(kw)),
      FirstBoundsByKeyword(keywords, xml.nodes,
        LAMBDA kw, n : Contains(Lower(Strip(n.text)), Lower(kw))),
      FirstBoundsByKeyword(keywords, xml.nodes,
        LAMBDA kw, n : Contains(Lower(n.desc), Lower(kw)))>>)

\* ADBTools.dump_visible_text: the first 20 non-empty stripped texts joined by "; "
RECURSIVE Join(_, _)
Join(texts, sep) ==
  IF Len(texts) = 0 THEN ""
  ELSE IF Len(texts) = 1 THEN texts[1]
  ELSE texts[1] \o sep \o Join(Tail(texts), sep)

NodeTexts(nodes) ==
  LET idx == SelectSeq([i \in 1..Len(nodes) |-> i], LAMBDA i : Strip(nodes[i].text) # "")
  IN [j \in 1..Len(idx) |-> Strip(nodes[idx[j]].text)]

dump_visible_text(xml) ==
  IF xml.kind = "none" THEN "[UI dump failed]"
  ELSE IF xml.kind = "bad" THEN "[XML parse failed: syntax error: line 1, column 0]"
  ELSE Join(Prefix(NodeTexts(xml.nodes), 20), "; ")

\* ADBTools.dump_all_clickable_elements: clickable nodes that have a bounds attribute
dump_all_clickable_elements(xml) ==
  IF xml.kind # "xml" THEN <<>>
  ELSE LET els == SelectSeq(xml.nodes, LAMBDA n : n.clickable = "true" /\ n.bounds # "")
       IN [i \in 1..Len(els) |->
             [class |-> els[i].class, text |-> Strip(els[i].text),
              content_desc |-> Strip(els[i].desc), resource_id |-> Strip(els[i].rid),
              bounds |-> els[i].bounds]]

\* ADBTools.find_first_edit_text
find_first_edit_text(xml) ==
  IF xml.kind # "xml" THEN None
  ELSE FirstBounds(xml.nodes, LAMBDA n : Contains(n.class, "EditText"))

\* the input-like widgets of find_input_field_bounds
IsInputWidget(n) ==
  \/ Contains(n.class, "EditText") \/ Contains(n.class, "TextInput")
  \/ EndsWith(n.rid, "input")

\* bounds b begin at or below the label's bottom, less 10
Below(b, label_bounds) == b # None /\ b.y1 >= label_bounds.y2 - 10

\* the search below the label node. "if not label_node" tests an Element,
\* which is false for a node that has no child nodes
InputBelow(nodes, label_node, label_bounds) ==
  IF label_node.kids = 0 THEN None
  ELSE IF label_bounds = None THEN None
  ELSE FirstBounds(nodes,
         LAMBDA n : IsInputWidget(n) /\ Below(ParseBounds(n.bounds), label_bounds))

\* the first node whose text contains label_text, None when there is none
LabelNode(nodes, label_text) ==
  LET hits == {i \in 1..Len(nodes) : Contains(Lower(nodes[i].text), Lower(label_text))}
  IN IF hits = {} THEN None ELSE nodes[Least(hits)]

\* ADBTools.find_input_field_bounds
find_input_field_bounds(xml, label_text) ==
  IF xml.kind # "xml" THEN None
  ELSE IF LabelNode(xml.nodes, label_text) = None THEN None
  ELSE InputBelow(xml.nodes, LabelNode(xml.nodes, label_text),
                  ParseBounds(LabelNode(xml.nodes, label_text).bounds))

\* is_toggle of find_toggle_or_switch
IsToggle(n) ==
  \/ Contains(n.class, "Switch") \/ Contains(n.class, "Toggle")
  \/ Contains(n.class, "Check") \/ n.checkable = "true"

\* bounds b lie within 200 of the label's top
Near(b, label_bounds) ==
  b # None /\ b.y1 - label_bounds.y1 < 200 /\ label_bounds.y1 - b.y1 < 200

\* the second pass of find_toggle_or_switch: the first toggle near the label
NearLabel(nodes, label_bounds) ==
  IF label_bounds = None THEN None
  ELSE FirstBounds(nodes, LAMBDA n : IsToggle(n) /\ Near(ParseBounds(n.bounds), label_bounds))

\* ADBTools.find_toggle_or_switch; label_text = "" stands for no label, and
\* xml2 is the dump that the nested find_bounds_by_text call takes
find_toggle_or_switch(xml, xml2, label_text) ==
  IF xml.kind # "xml" THEN None
  ELSE IF label_text = "" THEN FirstBounds(xml.nodes, IsToggle)
  ELSE
    FirstSome(<<
      FirstBounds(xml.nodes,
        LAMBDA n : IsToggle(n) /\ Contains(Lower(n.text), Lower(label_text))),
      NearLabel(xml.nodes, find_bounds_by_text(xml2, label_text))>>)

\* is_button of find_button_by_text
IsButton(n) == Contains(n.class, "Button") \/ n.clickable = "true"

\* a find_button_by_text that returns the first button whose text contains
\* button_text
ButtonBySubstring(xml, button_text) ==
  IF xml.kind # "xml" THEN None
  ELSE FirstBounds(xml.nodes,
         LAMBDA n : IsButton(n) /\ Contains(Lower(Strip(n.text)), Lower(button_text)))

\* ADBTools.find_button_by_text: exact text first, then text containing it
find_button_by_text(xml, button_text) ==
  IF xml.kind # "xml" THEN None
  ELSE
    FirstSome(<<
      FirstBounds(xml.nodes,
        LAMBDA n : IsButton(n) /\ Lower(Strip(n.text)) = Lower(button_text)),
      FirstBounds(xml.nodes,
        LAMBDA n : IsButton(n) /\ Contains(Lower(Strip(n.text)), Lower(button_text)))>>)

\* settings_patterns of find_settings_icon
settings_patterns ==
  {"settings", "gear", "cog", "preferences", "options", "config", "open settings"}

\* ADBTools.find_settings_icon: content-desc of clickable/Button/Image nodes
\* first, then any text containing "settings"
find_settings_icon(xml) ==
  IF xml.kind # "xml" THEN None
  ELSE
    FirstSome(<<
      FirstBounds(xml.nodes,
        LAMBDA n : /\ \/ n.clickable = "true" \/ Contains(n.class, "Button")
                      \/ Contains(n.class, "Image")
                   /\ ContainsAny(Lower(n.desc), settings_patterns)),
      FirstBounds(xml.nodes,
        LAMBDA n : /\ (n.clickable = "true" \/ n.text # "")
                   /\ Contains(Lower(n.text), "settings"))>>)

\* ------------------------------------------------------------------------
\* extract_target_text (src/main.py 762-788)
\* ------------------------------------------------------------------------

CharAt(s, p) == SubSeq(s, p, p)

\* the position after the longest run, starting at p, of characters for which
\* InRun holds
RunEnd(s, p, InRun(_)) ==
  IF p > Len(s) THEN p
  ELSE Least({q \in p..(Len(s) + 1) : q = Len(s) + 1 \/ ~InRun(CharAt(s, q))})

RECURSIVE FindAllQuoted(_, _, _)
\* re.findall of  Q([^Q]+)Q  from position p on, Q a set of quote characters
FindAllQuoted(s, p, Q) ==
  IF p > Len(s) THEN <<>>
  ELSE LET e == RunEnd(s, p + 1, LAMBDA c : c \notin Q)
       IN IF CharAt(s, p) \in Q /\ e > p + 1 /\ e <= Len(s)
          THEN <<SubSeq(s, p + 1, e - 1)>> \o FindAllQuoted(s, e + 1, Q)
          ELSE FindAllQuoted(s, p + 1, Q)

Quotes == {"'", "\""}

RECURSIVE LStripChars(_, _)
LStripChars(s, cs) ==
  IF Len(s) > 0 /\ CharAt(s, 1) \in cs THEN LStripChars(SubSeq(s, 2, Len(s)), cs) ELSE s

RECURSIVE RStripChars(_, _)
RStripChars(s, cs) ==
  IF Len(s) > 0 /\ CharAt(s, Len(s)) \in cs
  THEN RStripChars(SubSeq(s, 1, Len(s) - 1), cs)
  ELSE s

\* s.strip(chars)
StripChars(s, cs) == RStripChars(LStripChars(s, cs), cs)

\* (?:\s+button|\s+icon|\s+link|\s+option|\s*$) matches at position q of the
\* lower-cased step ls
SuffixAt(ls, q) ==
  \E w \in {RunEnd(ls, q, IsSpace)} :
     \/ w > q /\ \E word \in {"button", "icon", "link", "option"} : LitAt(ls, w, word)
     \/ w > Len(ls)

\* (.+?) from position start: the shortest non-empty group after which the
\* suffix matches; the group that runs to the end of the step always does
LazyGroup(s, start) ==
  SubSeq(s, start,
         start + Least({n \in 1..(Len(s) - start + 1) : SuffixAt(Lower(s), start + n)}) - 1)

\* the start of group 1, in the regex's backtracking order, when "tap" stands
\* at position i of ls, the white space after it ends before p, and the white
\* space after a "the" at p ends before t; 0 when there is no match at i
GroupStart(ls, i, p, t) ==
  IF ~LitAt(ls, i, "tap") \/ p = i + 3 THEN 0
  ELSE IF LitAt(ls, p, "the") /\ t > p + 3 /\ t <= Len(ls) THEN t
  ELSE IF LitAt(ls, p, "the") /\ t > p + 3 /\ t - 1 > p + 3 THEN t - 1
  ELSE IF p <= Len(ls) THEN p
  ELSE IF p - 1 > i + 3 THEN p - 1
  ELSE 0

\* the match of  tap\s+(?:the\s+)?(.+?)(?:...)  with "tap" at position i of
\* the lower-cased step ls
GroupStartAt(ls, i) ==
  GroupStart(ls, i, RunEnd(ls, i + 3, IsSpace),
             RunEnd(ls, RunEnd(ls, i + 3, IsSpace) + 3, IsSpace))

\* group 1 of the leftmost match, given the starts of group 1 by position
FirstGroup(s, starts) ==
  IF \A i \in 1..Len(starts) : starts[i] = 0 THEN None
  ELSE [text |-> LazyGroup(s, starts[Least({i \in 1..Len(starts) : starts[i] # 0})])]

\* re.search(...).group(1), None when the pattern matches nowhere
TapGroup(s) == FirstGroup(s, [i \in 1..Len(s) |-> GroupStartAt(Lower(s), i)])

RECURSIVE Split(_)
\* s.split()
Split(s) ==
  LET b == RunEnd(s, 1, IsSpace)
      e == RunEnd(s, b, LAMBDA c : ~IsSpace(c))
  IN IF b > Len(s) THEN <<>>
     ELSE <<SubSeq(s, b, e - 1)>> \o Split(SubSeq(s, e, Len(s)))

InSeq(x, seq) == \E i \in 1..Len(seq) : seq[i] = x

StopWords == {"tap", "the", "button", "icon", "click", "press", "labeled"}

RECURSIVE AddWords(_, _)
\* the loop over step_description.split()
AddWords(candidates, words) ==
  IF Len(words) = 0 THEN candidates
  ELSE LET clean == StripChars(words[1], {"'", "\"", ".", ",", "!", "?"})
       IN AddWords(IF Len(clean) > 3 /\ Lower(clean) \notin StopWords
                      /\ ~InSeq(clean, candidates)
                   THEN Append(candidates, clean) ELSE candidates,
                   Tail(words))

\* m.group(1).strip().strip("'\""), "" when there is no match
GroupText(m) == IF m = None THEN "" ELSE StripChars(Strip(m.text), Quotes)

\* if text and text not in candidates: candidates.append(text)
AddText(candidates, text) ==
  IF text # "" /\ ~InSeq(text, candidates) THEN Append(candidates, text) ELSE candidates

extract_target_text(step_description) ==
  AddWords(AddText(FindAllQuoted(step_description, 1, Quotes),
                   GroupText(TapGroup(step_description))),
           Split(step_description))

\* ------------------------------------------------------------------------
\* Planner.get_next_step: post-processing of the oracle's response
\* (src/main.py 875-887)
\* ------------------------------------------------------------------------

RECURSIVE SplitLines(_)
\* s.split('\n')
SplitLines(s) ==
  LET e == RunEnd(s, 1, LAMBDA c : c # "\n")
  IN IF e > Len(s) THEN <<s>>
     ELSE <<SubSeq(s, 1, e - 1)>> \o SplitLines(SubSeq(s, e + 1, Len(s)))

ActionVerbs == {"Tap", "Type", "Press", "DONE", "FAIL"}

\* get_next_step with the lines scanned from the top
NextStepTopDown(response) ==
  LET lines == SplitLines(Strip(response))
      verbs == {i \in 1..Len(lines) :
                  /\ Strip(lines[i]) # ""
                  /\ \E v \in ActionVerbs : StartsWith(Strip(lines[i]), v)}
      filled == {i \in 1..Len(lines) : Strip(lines[i]) # ""}
  IN IF verbs # {} THEN Strip(lines[Least(verbs)])
     ELSE IF filled # {} THEN Strip(lines[Least(filled)])
     ELSE response

get_next_step(response) ==
  LET lines == SplitLines(Strip(response))
      verbs == {i \in 1..Len(lines) :
                  /\ Strip(lines[i]) # ""
                  /\ \E v \in ActionVerbs : StartsWith(Strip(lines[i]), v)}
      filled == {i \in 1..Len(lines) : Strip(lines[i]) # ""}
      Last(S) == CHOOSE i \in S : \A j \in S : j <= i
  IN IF verbs # {} THEN Strip(lines[Last(verbs)])
     ELSE IF filled # {} THEN Strip(lines[Last(filled)])
     ELSE response

\* ------------------------------------------------------------------------
\* Executor.execute_step (src/main.py 895-1015)
\*
\* A JSON value is [t |-> "dict", v |-> a record], [t |-> "list", v |-> a
\* sequence of JSON values] or [t |-> "other"]. json.loads is modelled by the
\* table JsonTexts of the texts that parse; every other text fails to parse.
\* The swipe's start_y and end_y are the floats screen_h * 0.7 and
\* screen_h * 0.3, kept in tenths of a pixel.
\* ------------------------------------------------------------------------

JDict(r) == [t |-> "dict", v |-> r]
JList(q) == [t |-> "list", v |-> q]

JsonTexts ==
  ( "{\"action\": \"tap\", \"x\": 850, \"y\": 150}" :>
        JDict([action |-> "tap", x |-> 850, y |-> 150])
    @@ "{\"action\": \"tap\"}" :> JDict([action |-> "tap"])
    @@ "{\"action\": \"wait\", \"seconds\": 2}" :> JDict([action |-> "wait", seconds |-> 2])
    @@ "{\"action\": \"type\", \"text\": \"hi\"}" :> JDict([action |-> "type", text |-> "hi"])
    @@ "{\"x\": 850, \"y\": 150}" :> JDict([x |-> 850, y |-> 150])
    @@ "[{\"action\": \"tap\", \"x\": 850, \"y\": 150}]" :>
        JList(<<JDict([action |-> "tap", x |-> 850, y |-> 150])>>)
    @@ "[]" :> JList(<<>>)
    @@ "850" :> [t |-> "other"] )

\* json.loads: None stands for the exception
json_loads(text) == IF text \in DOMAIN JsonTexts THEN JsonTexts[text] ELSE None

RECURSIVE Remove(_, _)
\* s.replace(pat, "")
Remove(s, pat) ==
  IF Len(s) < Len(pat) THEN s
  ELSE IF SubSeq(s, 1, Len(pat)) = pat THEN Remove(SubSeq(s, Len(pat) + 1, Len(s)), pat)
  ELSE CharAt(s, 1) \o Remove(SubSeq(s, 2, Len(s)), pat)

\* The code fence: a TLA+ string cannot hold a backquote, so the modelled
\* texts write ~ for it.
Fence == "~~~"

\* response.replace(Fence + "json", "").replace(Fence, "").strip()
clean_json(response) == Strip(Remove(Remove(response, Fence \o "json"), Fence))

Tap(x, y) == [action |-> "tap", x |-> x, y |-> y]
Key(keycode) == [action |-> "key", keycode |-> keycode]
Swipe(x1, y1, x2, y2) ==
  [action |-> "swipe", start_x |-> x1, start_y |-> y1, end_x |-> x2, end_y |-> y2]
Type(text) == [action |-> "type", text |-> text]
Wait(seconds) == [action |-> "wait", seconds |-> seconds]

\* the memorized-location rule: the first keyword, in this order, that the
\* step contains and that memory recalls
MemoryKeywords == <<"gear", "settings", "menu", "back", "expand">>

\* the Tap at a remembered location, None when nothing is remembered
TapAt(remembered) ==
  IF remembered = None THEN None ELSE Tap(remembered.x, remembered.y)

\* a memorized-location rule that consults memory whether or not the caller
\* supplied a hint
MemoryRuleAnyHint(m, step_lower, target_hint) ==
  IF Contains(step_lower, "tap")
  THEN FirstSome([k \in 1..Len(MemoryKeywords) |->
                    IF Contains(step_lower, MemoryKeywords[k])
                    THEN TapAt(recall_element_location(m, MemoryKeywords[k]))
                    ELSE None])
  ELSE None

MemoryRule(m, step_lower, target_hint) ==
  IF target_hint = None /\ Contains(step_lower, "tap")
  THEN FirstSome([k \in 1..Len(MemoryKeywords) |->
                    IF Contains(step_lower, MemoryKeywords[k])
                    THEN TapAt(recall_element_location(m, MemoryKeywords[k]))
                    ELSE None])
  ELSE None

KeyRule(step_lower) ==
  IF Contains(step_lower, "press") /\ Contains(step_lower, "arrow")
     /\ ContainsAny(step_lower, {"down", "up", "left", "right"})
  THEN IF Contains(step_lower, "down") THEN Key(20)
       ELSE IF Contains(step_lower, "up") THEN Key(19)
       ELSE IF Contains(step_lower, "left") THEN Key(21)
       ELSE Key(22)
  ELSE IF Contains(step_lower, "press enter") \/ Contains(step_lower, "press return")
  THEN Key(66)
  ELSE None

\* a swipe rule that looks for 'down' before it looks for 'up'
SwipeRuleDownFirst(step_lower, screen_size) ==
  LET screen_h == screen_size[2]
      center_x == 250
  IN IF (Contains(step_lower, "swipe") \/ Contains(step_lower, "scroll"))
        /\ (Contains(step_lower, "up") \/ Contains(step_lower, "down"))
     THEN IF Contains(step_lower, "down")
          THEN Swipe(center_x, screen_h * 3, center_x, screen_h * 7)
          ELSE Swipe(center_x, screen_h * 7, center_x, screen_h * 3)
     ELSE None

SwipeRule(step_lower, screen_size) ==
  LET screen_h == screen_size[2]
      center_x == 250
  IN IF (Contains(step_lower, "swipe") \/ Contains(step_lower, "scroll"))
        /\ (Contains(step_lower, "up") \/ Contains(step_lower, "down"))
     THEN IF Contains(step_lower, "up")
          THEN Swipe(center_x, screen_h * 7, center_x, screen_h * 3)
          ELSE Swipe(center_x, screen_h * 3, center_x, screen_h * 7)
     ELSE None

\* a hint rule that taps the top-left corner of the bounds
HintCorner(step_lower, target_hint) ==
  IF target_hint # None /\ Contains(step_lower, "tap")
  THEN Tap(target_hint.x1, target_hint.y1)
  ELSE None

HintRule(step_lower, target_hint) ==
  IF target_hint # None /\ Contains(step_lower, "tap")
  THEN Tap((target_hint.x1 + target_hint.x2) \div 2,
           (target_hint.y1 + target_hint.y2) \div 2)
  ELSE None

\* the type action of the first quoted text, None when there is none
TypeFirst(quoted) == IF Len(quoted) > 0 THEN Type(quoted[1]) ELSE None

\* a type rule that types the quoted text in lower case
TypeRuleLower(step_description) ==
  IF Contains(Lower(step_description), "type")
  THEN TypeFirst(FindAllQuoted(Lower(step_description), 1, Quotes))
  ELSE None

TypeRule(step_description) ==
  IF Contains(Lower(step_description), "type")
  THEN TypeFirst(FindAllQuoted(step_description, 1, Quotes))
  ELSE None

\* action[0] of a list, the wait action for the empty list
FirstOfList(parsed) ==
  IF parsed.t # "list" THEN parsed
  ELSE IF Len(parsed.v) > 0 THEN parsed.v[1] ELSE JDict(Wait(1))

\* the checks on the parsed action
CheckedAction(first) ==
  IF first.t # "dict" THEN Wait(1)
  ELSE IF "action" \notin DOMAIN first.v THEN Wait(1)
  ELSE first.v

\* the action of the parsed response, fallback when json.loads raised
ParsedAction(parsed, fallback) ==
  IF parsed = None THEN fallback ELSE CheckedAction(FirstOfList(parsed))

\* a slow path that waits whenever the response does not parse
VisionRuleWaits(step_description, response) ==
  ParsedAction(json_loads(clean_json(response)), Wait(1))

\* the slow path, given the oracle's response text
VisionRule(step_description, response) ==
  ParsedAction(json_loads(clean_json(response)),
               IF Contains(Lower(step_description), "type")
               THEN OrElse(TypeFirst(FindAllQuoted(step_description, 1, {"'"})), Wait(1))
               ELSE Wait(1))

\* the result of execute_step: the fast action when a rule yields one, else
\* the slow path's; vision tells whether the oracle was called
Resolved(fast, step_description, response) ==
  IF fast # None THEN [action |-> fast, vision |-> FALSE]
  ELSE [action |-> VisionRule(step_description, response), vision |-> TRUE]

\* an executor that tries the quoted-text type rule before the other rules
FastRulesTypeFirst(m, screen_size, step_description, step_lower, target_hint) ==
  FirstSome(<<TypeRule(step_description),
              MemoryRule(m, step_lower, target_hint),
              KeyRule(step_lower),
              SwipeRule(step_lower, screen_size),
              HintRule(step_lower, target_hint)>>)

\* the rules in the order of the code; the first that yields an action wins
FastRules(m, screen_size, step_description, step_lower, target_hint) ==
  FirstSome(<<MemoryRule(m, step_lower, target_hint),
              KeyRule(step_lower),
              SwipeRule(step_lower, screen_size),
              HintRule(step_lower, target_hint),
              TypeRule(step_description)>>)

execute_step(m, screen_size, step_description, target_hint, response) ==
  Resolved(FastRules(m, screen_size, step_description, Lower(step_description),
                     target_hint),
           step_description, response)

\* ------------------------------------------------------------------------
\* Element detection of run_test_case (src/main.py 1123-1263)
\*
\* A detection result is [bounds |-> bounds or None, label |-> target_label].
\* Every query of one detection reads the dump xml.
\* ------------------------------------------------------------------------

Found(bounds, label) == [bounds |-> bounds, label |-> label]

\* bounds under the label, None when a query found nothing
Labelled(bounds, label) == IF bounds = None THEN None ELSE Found(bounds, label)

\* the last element of seq that is not None; None when there is none
LastSome(seq) ==
  IF \A i \in 1..Len(seq) : seq[i] = None THEN None
  ELSE seq[CHOOSE i \in 1..Len(seq) :
             seq[i] # None /\ \A j \in (i + 1)..Len(seq) : seq[j] = None]

\* the header test of the debug loop over the clickable elements
HeaderIcon(el, b) ==
  IF b # None /\ b.y2 < 300 /\ el.text = "" /\ b.x1 > 700 /\ b.y1 < 260 THEN b ELSE None

\* the unlabeled clickable element on the right of the header; the loop keeps
\* the last one
PotentialGearOf(els) ==
  LastSome([i \in 1..Len(els) |-> HeaderIcon(els[i], ParseBounds(els[i].bounds))])

PotentialGear(xml) == PotentialGearOf(dump_all_clickable_elements(xml))

is_body_action(step_lower) ==
  Contains(step_lower, "body") \/ Contains(step_lower, "content area")

is_settings_action(step_lower) ==
  ContainsAny(step_lower, {"settings", "gear", "cog", "preferences"})

is_input_action(step_lower) ==
  /\ ~is_body_action(step_lower)
  /\ ~is_settings_action(step_lower)
  /\ ContainsAny(step_lower, {"input", "field", "textbox", "text box", "text field",
                              "type in", "enter text", "vault name"})

is_permission_action(step_lower) ==
  ContainsAny(step_lower, {"allow", "deny", "permit", "grant", "ok", "cancel",
                           "accept", "decline"})

\* the unlabeled header icon, taken when the step is a settings action
DetectHeaderIcon(prev, xml, step_lower) ==
  IF is_settings_action(step_lower) /\ prev.bounds = None
  THEN OrElse(Labelled(PotentialGear(xml), "PotentialGearIcon"), prev)
  ELSE prev

\* A. settings/gear icon: it replaces the header icon when it is found
DetectSettings(prev, xml, step_lower) ==
  IF is_settings_action(step_lower) /\ Contains(step_lower, "tap")
  THEN OrElse(Labelled(find_settings_icon(xml), "SettingsIcon"), prev)
  ELSE prev

\* the 100 x 100 square around (body_x, body_y)
BodySquare(body_x, body_y) ==
  [x1 |-> body_x - 50, y1 |-> body_y - 50, x2 |-> body_x + 50, y2 |-> body_y + 50]

\* B. body area: a square at 40% of the screen height
DetectBody(prev, screen_size, step_lower) ==
  IF prev.bounds = None /\ is_body_action(step_lower) /\ Contains(step_lower, "tap")
  THEN Found(BodySquare(screen_size[1] \div 2, (screen_size[2] * 4) \div 10), "BodyArea")
  ELSE prev

\* C. input field
DetectInput(prev, xml, step_lower) ==
  IF prev.bounds = None /\ is_input_action(step_lower)
  THEN OrElse(Labelled(find_first_edit_text(xml), "EditText"), prev)
  ELSE prev

PermissionButtons == <<"Allow", "ALLOW", "OK", "Deny", "Cancel", "Accept">>

\* the button btn_text when the step names it and find_button_by_text finds it
PermissionButton(xml, step_lower, btn_text) ==
  IF Contains(step_lower, Lower(btn_text))
  THEN Labelled(find_button_by_text(xml, btn_text), "Button:" \o btn_text)
  ELSE None

\* D. permission button: the first of the button texts that the step names
\* and that find_button_by_text finds
DetectPermission(prev, xml, step_lower) ==
  IF prev.bounds = None /\ is_permission_action(step_lower)
  THEN OrElse(FirstSome([k \in 1..Len(PermissionButtons) |->
                           PermissionButton(xml, step_lower, PermissionButtons[k])]),
              prev)
  ELSE prev

\* E. toggle/switch
DetectToggle(prev, xml, step_lower) ==
  IF prev.bounds = None /\ ContainsAny(step_lower, {"toggle", "switch", "enable"})
  THEN OrElse(Labelled(find_toggle_or_switch(xml, xml, ""), "Toggle"), prev)
  ELSE prev

\* a generic matcher that tries any text before the buttons
GenericTextFirst(xml, candidates) ==
  FirstSome(<<
    FirstSome([k \in 1..Len(candidates) |->
                 Labelled(find_bounds_by_text(xml, candidates[k]), candidates[k])]),
    FirstSome([k \in 1..Len(candidates) |->
                 Labelled(find_button_by_text(xml, candidates[k]),
                          "Button:" \o candidates[k])]),
    IF Len(candidates) > 0
    THEN Labelled(find_bounds_by_keywords(xml, candidates), "keyword-match")
    ELSE None>>)

\* the three passes of F over the candidates: button, any text, keywords
GenericPasses(xml, candidates) ==
  FirstSome(<<
    FirstSome([k \in 1..Len(candidates) |->
                 Labelled(find_button_by_text(xml, candidates[k]),
                          "Button:" \o candidates[k])]),
    FirstSome([k \in 1..Len(candidates) |->
                 Labelled(find_bounds_by_text(xml, candidates[k]), candidates[k])]),
    IF Len(candidates) > 0
    THEN Labelled(find_bounds_by_keywords(xml, candidates), "keyword-match")
    ELSE None>>)

\* F. button, then any text, then keywords, over the candidates of
\* extract_target_text
DetectGeneric(prev, xml, next_step) ==
  IF prev.bounds = None /\ Contains(Lower(next_step), "tap")
  THEN OrElse(GenericPasses(xml, extract_target_text(next_step)), prev)
  ELSE prev

\* the EditText for a type step
DetectTypeField(prev, xml, step_lower) ==
  IF prev.bounds = None /\ Contains(step_lower, "type") /\ ~is_body_action(step_lower)
  THEN OrElse(Labelled(find_first_edit_text(xml), "EditText"), prev)
  ELSE prev

\* a cascade that runs the generic matcher F before the detectors B to E
CascadeGenericFirst(xml, screen_size, next_step, step_lower) ==
  DetectTypeField(
    DetectToggle(
      DetectPermission(
        DetectInput(
          DetectBody(
            DetectGeneric(
              DetectSettings(
                DetectHeaderIcon(Found(None, "Target"), xml, step_lower),
                xml, step_lower),
              xml, next_step),
            screen_size, step_lower),
          xml, step_lower),
        xml, step_lower),
      xml, step_lower),
    xml, step_lower)

\* the cascade over the lower-cased step, in the order of the code
Cascade(xml, screen_size, next_step, step_lower) ==
  DetectTypeField(
    DetectGeneric(
      DetectToggle(
        DetectPermission(
          DetectInput(
            DetectBody(
              DetectSettings(
                DetectHeaderIcon(Found(None, "Target"), xml, step_lower),
                xml, step_lower),
              screen_size, step_lower),
            xml, step_lower),
          xml, step_lower),
        xml, step_lower),
      xml, next_step),
    xml, step_lower)

Detect(xml, screen_size, next_step) ==
  Cascade(xml, screen_size, next_step, Lower(next_step))

\* ------------------------------------------------------------------------
\* The execution of an action by run_test_case (src/main.py 1274-1341)
\* ------------------------------------------------------------------------

\* the fields whose absence raises KeyError in the loop
RequiredFields(action) ==
  CASE action = "tap" -> {"x", "y"}
    [] action = "wait" -> {"seconds"}
    [] action = "swipe" -> {"start_x", "start_y", "end_x", "end_y"}
    [] OTHER -> {}

ActionRaises(action_data) == ~(RequiredFields(action_data.action) \subseteq DOMAIN action_data)

\* history[-2] mentions the body: the cursor is already in the body
was_body_tap(history) ==
  Len(history) >= 2 /\ Contains(Lower(history[Len(history) - 1]), "body")

\* the device commands that the loop issues for action_data, in order
DeviceCommands(action_data, history, target) ==
  CASE action_data.action = "tap" ->
         <<[cmd |-> "tap", x |-> action_data.x, y |-> action_data.y]>>
    [] action_data.action = "type" ->
         (IF ~was_body_tap(history) /\ target.bounds # None /\ target.label # "BodyArea"
          THEN <<[cmd |-> "tap", x |-> (target.bounds.x1 + target.bounds.x2) \div 2,
                  y |-> (target.bounds.y1 + target.bounds.y2) \div 2]>>
          ELSE <<>>)
         \o <<[cmd |-> "type_text",
               text |-> IF "text" \in DOMAIN action_data THEN action_data.text ELSE ""],
              [cmd |-> "key_event", keycode |-> 4]>>
    [] action_data.action = "key" ->
         <<[cmd |-> "key_event",
            keycode |-> IF "keycode" \in DOMAIN action_data THEN action_data.keycode ELSE 0]>>
    [] action_data.action = "swipe" ->
         <<[cmd |-> "swipe", start_x |-> action_data.start_x,
            start_y |-> action_data.start_y \div 10,
            end_x |-> action_data.end_x, end_y |-> action_data.end_y \div 10]>>
    [] OTHER -> <<>>

LocationKeywords == <<"expand", "menu", "back">>

\* after a tap: memorize the first of expand/menu/back that the step names,
\* only when detection had supplied bounds
MemorizeTap(m, next_step, target, x, y, visible_ui) ==
  LET hits == {k \in 1..Len(LocationKeywords) :
                 Contains(Lower(next_step), LocationKeywords[k])}
  IN IF target.bounds # None /\ hits # {}
     THEN remember_element_location(m, LocationKeywords[Least(hits)], x, y,
                                    Prefix(visible_ui, 100))
     ELSE m

MentionsGear(next_step) ==
  Contains(Lower(next_step), "gear") \/ Contains(Lower(next_step), "settings")

\* a tap that leaves no pending verification
PendingNever(m, next_step, x, y) == m

\* after a tap: the pending verification of a gear/settings step
PendingAfterTap(m, next_step, x, y) ==
  IF MentionsGear(next_step)
  THEN set_session_context(m, "pending_gear_location", [x |-> x, y |-> y])
  ELSE m

\* the settings vocabulary checked at the next observation
settings_indicators ==
  {"appearance", "editor", "files & links", "about", "base color", "accent color", "theme"}

SettingsVisible(visible_ui) == ContainsAny(Lower(visible_ui), settings_indicators)

\* ------------------------------------------------------------------------
\* Inputs: the device's screens, the oracle's responses, the stored documents
\* ------------------------------------------------------------------------

NoDump == [kind |-> "none"]

\* a screen with an OK button, an unlabeled icon at the right of the header
\* and a text field
HomeDump ==
  [kind |-> "xml",
   nodes |-> <<
     Node("", "", "", "", "", "", "", 3),
     Node("OK", "", "android.widget.Button", "", "[100,200][400,260]", "true", "false", 0),
     Node("", "", "android.widget.ImageView", "", "[800,100][900,200]", "true", "false", 0),
     Node("", "", "android.widget.EditText", "", "[100,400][900,500]", "true", "false", 0)>>]

\* the settings screen: a labelled settings icon and the settings vocabulary
SettingsDump ==
  [kind |-> "xml",
   nodes |-> <<
     Node("", "", "", "", "", "", "", 3),
     Node("", "Settings", "android.widget.ImageView", "", "[40,120][120,200]", "true", "false", 0),
     Node("Appearance", "", "android.widget.TextView", "", "[0,300][1080,400]", "true", "false", 0),
     Node("About", "", "android.widget.TextView", "", "", "false", "false", 0)>>]

UIs == {NoDump, HomeDump, SettingsDump}

\* (width, height) as get_screen_size returns it
ScreenSizes == {<<1080, 2400>>}

\* the Supervisor's responses
SupervisorResponses == {"PASS", "FAIL", "CONTINUE", "Not FAIL but PASS"}

\* the Planner's responses: DefaultResponse any number of times, the others
\* at most MaxVaried times in one process
DefaultResponse == "Press down arrow"

VariedResponses ==
  {"Tap the gear icon", "I see the sidebar.\nTap the gear icon\n", "Tap 'OK'",
   "Type 'hi'", "Swipe up", "Open Settings", "Tap the menu",
   "DONE", "FAIL: no gear", "FAIL: DONE button missing"}

MaxVaried == 1

\* the vision oracle's responses to the Executor
VisionResponses ==
  {"~~~json\n{\"action\": \"tap\", \"x\": 850, \"y\": 150}\n~~~",
   "{\"action\": \"tap\"}",
   "{\"action\": \"wait\", \"seconds\": 2}",
   "[]",
   "I cannot see that element."}

\* the objectives of the test cases of __main__
Objectives ==
  <<"Open Obsidian, create a new vault named 'internVault', and enter the editor.",
    "Create a new note titled 'Meeting Notes' and type the text 'Daily Standup' into the body.",
    "Go to Settings and tap on 'Appearance'. Look at the current screen and check if there is any RED colored icon visible. If you see 'Appearance' settings content (like 'Base color scheme', 'Accent color', 'Font'), verify: is there a red icon anywhere? If no red icon is visible, report FAIL: No red icon found.",
    "Find and click the 'Print to PDF' button in the main file menu. Search thoroughly in all menus and options. If after checking all available menus you cannot find this button, report FAIL: Element not found.">>

\* the number of test cases of __main__; --test=N starts at test N
TestCases == 4

\* the process runs at most MaxRuns test cases (start_test > TestCases - MaxRuns)
MaxRuns == 1

\* a document that an earlier process wrote when it promoted a pending gear
\* location: remember_element_location saves before the pending entry is reset
GearDocument ==
  [element_locations |->
     <<[key |-> "gear",
        val |-> [x |-> 850, y |-> 150, context |-> "Settings screen", found_at |-> 0]]>>,
   successful_actions |-> <<>>,
   failed_actions |-> <<>>,
   app_knowledge |-> <<>>,
   session_context |->
     <<[key |-> "pending_gear_location", val |-> [x |-> 850, y |-> 150]]>>]

InitialFiles == {None, GearDocument}

\* ------------------------------------------------------------------------
\* The process: __main__ runs the test cases one after the other, each by
\* run_test_case (src/main.py 1055-1348, 1426-1489)
\* ------------------------------------------------------------------------

VARIABLES
  pc,           \* where the process is: "main", "loop", "verify", "plan",
                \* "detect", "execute", "halt", "exit1", "crash"
  run,          \* the number of the test case that runs or runs next
  step_count,   \* run_test_case's step_count
  history,      \* run_test_case's history
  visible_ui,   \* the visible text of the current iteration's observation
  status,       \* the Supervisor's status of the current iteration, "" if none
  next_step,    \* the Planner's step of the current iteration
  target,       \* target_bounds and target_label of the current iteration
  result,       \* what the last run_test_case returned: "True", "False", "None"
  exit_at,      \* where the last run ended
  ended,        \* the runs that have ended: where each ended and what it returned
  data,         \* agent_memory.data
  file,         \* the document agent_memory.json
  clock,        \* the number of timestamps taken
  ui,           \* what the device would dump now
  screen_size,  \* the Executor's screen_size
  events,       \* the external events of the current iteration, in order; under
                \* MemSpec the calls made, each by its name and its argument
  varied,       \* the number of Planner responses other than DefaultResponse
  gear_tap,     \* the last Tap executed for a gear/settings step that is
                \* still pending: [run, iter, x, y], or None
  iterations,   \* the number of times the loop body has been entered in this run
  logged,       \* every entry ever put in the success log and in the failure
                \* log, the loaded ones first, in insertion order
  action_data,  \* run_test_case's action_data: what execute_step returned in
                \* this iteration, None before it returns
  vision_response,  \* [text |-> the response of the vision oracle to
                \* execute_step in this iteration], None when it has not answered
  call,         \* a function called on its own: [fn |-> its name, arg |-> its
                \* argument]; None in a run of the program
  returned      \* [value |-> what the function called on its own returned],
                \* None before it returns

vars == <<pc, run, step_count, history, visible_ui, status, next_step, target, result,
          exit_at, ended, data, file, clock, ui, screen_size, events, varied, gear_tap,
          iterations, logged,
                 action_data, vision_response, call, returned>>

\* the two logs of a memory record
Logs(d) == [successes |-> d.successful_actions, failures |-> d.failed_actions]

\* the insertion history after a call that appended one entry to a log
Logged(log, entries) == Append(log, entries[Len(entries)])

\* a budget of one step more
max_steps_plus_one == 15 + 1

\* max_steps: the step budget
max_steps == 15

NoTarget == Found(None, "Target")

InLoop == {"loop", "verify", "plan", "detect", "execute"}

Init ==
  /\ pc = "main"
  /\ run \in (TestCases - MaxRuns + 1)..TestCases
  /\ step_count = 0
  /\ history = <<>>
  /\ visible_ui = ""
  /\ status = ""
  /\ next_step = ""
  /\ target = NoTarget
  /\ result = "None"
  /\ exit_at = "none"
  /\ ended = {}
  /\ file \in InitialFiles
  /\ data = load(file)
  /\ clock = 0
  /\ ui \in UIs
  /\ screen_size \in ScreenSizes
  /\ events = <<>>
  /\ varied = 0
  /\ gear_tap = None
  /\ iterations = 0
  /\ logged = Logs(data)
  /\ action_data = None
  /\ vision_response = None
  /\ call = None
  /\ returned = None

\* what a run leaves behind when it ends at place `at` returning `res`
EndRun(res, at) ==
  /\ pc' = "main"
  /\ run' = run + 1
  /\ result' = res
  /\ exit_at' = at
  /\ ended' = ended \cup {[at |-> at, result |-> res]}

\* __main__ calls run_test_case for the next test case: the device connects
StartRun ==
  /\ pc = "main" /\ run <= TestCases
  /\ pc' = "loop"
  /\ step_count' = 0
  /\ history' = <<>>
  /\ events' = <<>>
  /\ exit_at' = "none"
  /\ iterations' = 0
  /\ action_data' = None
  /\ vision_response' = None
  /\ UNCHANGED <<run, visible_ui, status, next_step, target, result, ended, data, file,
                 clock, ui, screen_size, varied, gear_tap, logged, call, returned>>

\* ADBTools.__init__ finds no device: exit(1)
NoDevice ==
  /\ pc = "main" /\ run <= TestCases
  /\ pc' = "exit1"
  /\ UNCHANGED <<run, step_count, history, visible_ui, status, next_step, target, result,
                 exit_at, ended, data, file, clock, ui, screen_size, events, varied, gear_tap,
                 iterations, logged,
                 action_data, vision_response, call, returned>>

\* __main__ has run its last test case
Finish ==
  /\ pc = "main" /\ run > TestCases
  /\ pc' = "halt"
  /\ UNCHANGED <<run, step_count, history, visible_ui, status, next_step, target, result,
                 exit_at, ended, data, file, clock, ui, screen_size, events, varied, gear_tap,
                 iterations, logged,
                 action_data, vision_response, call, returned>>

\* the while test fails: the run falls off the end of run_test_case
Exhaust ==
  /\ pc = "loop" /\ ~(step_count < max_steps)
  /\ EndRun("None", "exhausted")
  /\ UNCHANGED <<step_count, history, visible_ui, status, next_step, target, data, file,
                 clock, ui, screen_size, events, varied, gear_tap,
                 iterations, logged,
                 action_data, vision_response, call, returned>>

\* the memory as one value, and its assignment
Mem == [data |-> data, file |-> file, clock |-> clock]

SetMem(m) == data' = m.data /\ file' = m.file /\ clock' = m.clock

\* a Supervisor that is asked from the first iteration on
CheckStatusAlways(steps) == steps >= 0

\* Only check after we've done at least 3 steps
CheckStatus(steps) == steps >= 3

\* Only fail after many steps
AfterRetries(steps) == steps > 7

\* the pending gear verification of the observation
ObservePending(m, vis) ==
  LET pending_gear == get_session_context(m, "pending_gear_location", None)
      checked == IF SettingsVisible(vis)
                 THEN remember_element_location(m, "gear", pending_gear.x, pending_gear.y,
                                                "Settings screen")
                 ELSE m
  IN IF pending_gear = None THEN m
     ELSE set_session_context(checked, "pending_gear_location", None)

\* 1. Observe: screenshot, visible text, pending gear verification
Observe ==
  /\ pc = "loop" /\ step_count < max_steps
  /\ visible_ui' = dump_visible_text(ui)
  /\ SetMem(ObservePending(Mem, dump_visible_text(ui)))
  /\ events' = <<"observe">>
  /\ status' = ""
  /\ next_step' = ""
  /\ target' = NoTarget
  /\ gear_tap' = None
  /\ iterations' = iterations + 1
  /\ action_data' = None
  /\ vision_response' = None
  /\ pc' = IF CheckStatus(step_count) THEN "verify" ELSE "plan"
  /\ UNCHANGED <<run, step_count, history, result, exit_at, ended, ui, screen_size, varied,
                 logged, call, returned>>

\* an external call of Observe, Verify or Plan raises (the screenshot, the
\* Supervisor's or the Planner's oracle call): nothing in run_test_case or in
\* __main__ catches it
Uncaught ==
  /\ \/ pc = "loop" /\ step_count < max_steps
     \/ pc \in {"verify", "plan"}
  /\ pc' = "crash"
  /\ UNCHANGED <<run, step_count, history, visible_ui, status, next_step, target, result,
                 exit_at, ended, data, file, clock, ui, screen_size, events, varied, gear_tap,
                 iterations, logged,
                 action_data, vision_response, call, returned>>

\* a loop that tests the status for FAIL before it tests it for PASS
VerdictFailFirst(response, steps) ==
  IF Contains(response, "FAIL") /\ AfterRetries(steps) THEN "fail"
  ELSE IF Contains(response, "PASS") THEN "pass"
  ELSE "continue"

\* what the loop makes of the Supervisor's status: "PASS" in status is
\* tested first, then "FAIL" in status with step_count > 7
Verdict(response, steps) ==
  IF Contains(response, "PASS") THEN "pass"
  ELSE IF Contains(response, "FAIL") /\ AfterRetries(steps) THEN "fail"
  ELSE "continue"

\* 2. Check status: the Supervisor is asked once step_count >= 3
Verify ==
  /\ pc = "verify"
  /\ \E response \in SupervisorResponses :
       /\ status' = response
       /\ events' = Append(events, "verify")
       /\ IF Verdict(response, step_count) = "pass"
          THEN EndRun("True", "supervisor_pass")
          ELSE IF Verdict(response, step_count) = "fail"
          THEN EndRun("False", "supervisor_fail")
          ELSE pc' = "plan" /\ UNCHANGED <<run, result, exit_at, ended>>
  /\ UNCHANGED <<step_count, history, visible_ui, next_step, target, data, file, clock,
                 ui, screen_size, varied, gear_tap,
                 iterations, logged,
                 action_data, vision_response, call, returned>>

\* a loop that does not record the step
NotAppended(steps, step) == steps

\* history.append(next_step)
Appended(steps, step) == Append(steps, step)

\* 3. Plan: DONE and FAIL end the run, any other step goes to history
Plan ==
  /\ pc = "plan"
  /\ \E response \in {DefaultResponse} \cup VariedResponses :
       /\ response # DefaultResponse => varied < MaxVaried
       /\ varied' = IF response = DefaultResponse THEN varied ELSE varied + 1
       /\ next_step' = get_next_step(response)
       /\ events' = Append(events, "plan")
       /\ IF Contains(next_step', "DONE")
          THEN /\ SetMem(remember_successful_action(
                           Mem, "Completed: " \o Objectives[run], Prefix(visible_ui, 100)))
               /\ logged' = [logged EXCEPT
                               !.successes = Logged(@, data'.successful_actions)]
               /\ EndRun("None", "planner_done")
               /\ UNCHANGED history
          ELSE IF Contains(next_step', "FAIL")
          THEN /\ SetMem(remember_failed_action(
                           Mem, next_step', Prefix(visible_ui, 100), next_step'))
               /\ logged' = [logged EXCEPT !.failures = Logged(@, data'.failed_actions)]
               /\ EndRun("False", "planner_fail")
               /\ UNCHANGED history
          ELSE /\ history' = Appended(history, next_step')
               /\ pc' = "detect"
               /\ UNCHANGED <<run, result, exit_at, ended, data, file, clock, logged>>
  /\ UNCHANGED <<step_count, visible_ui, status, target, ui, screen_size, gear_tap,
                 iterations,
                 action_data, vision_response, call, returned>>

\* element detection over the UI dump
DetectTarget ==
  /\ pc = "detect"
  /\ target' = Detect(ui, screen_size, next_step)
  /\ events' = Append(events, "detect")
  /\ pc' = "execute"
  /\ UNCHANGED <<run, step_count, history, visible_ui, status, next_step, result, exit_at, ended,
                 data, file, clock, ui, screen_size, varied, gear_tap,
                 iterations, logged,
                 action_data, vision_response, call, returned>>

\* what the vision oracle does when it is called: it answers or it raises
VisionOutcomes ==
  [called : {TRUE}, raises : {FALSE}, text : VisionResponses]
  \cup {[called |-> TRUE, raises |-> TRUE, text |-> ""]}

\* the outcomes of this step's oracle call; a step that a rule resolves makes
\* no call
OracleOutcomes(m, size, step, hint) ==
  IF FastRules(m, size, step, Lower(step), hint) = None THEN VisionOutcomes
  ELSE {[called |-> FALSE, raises |-> FALSE, text |-> ""]}

\* the memory after a Tap at (x, y) has been executed
AfterTap(m, step, tgt, x, y, vis) ==
  PendingAfterTap(MemorizeTap(m, step, tgt, x, y, vis), step, x, y)

\* an execution that sends the device commands before it resolves the step
ExecEventsCommandsFirst(resolved, commands) ==
  [i \in 1..Len(commands) |-> commands[i].cmd] \o <<"resolve">>
  \o (IF resolved.vision THEN <<"vision">> ELSE <<>>)

\* the events of the execution: the resolution, the oracle if it is called,
\* the device commands
ExecEvents(resolved, commands) ==
  <<"resolve">> \o (IF resolved.vision THEN <<"vision">> ELSE <<>>)
  \o [i \in 1..Len(commands) |-> commands[i].cmd]

\* the loop's handling of a Tap that has been executed
TapDone(action) ==
  /\ SetMem(AfterTap(Mem, next_step, target, action.x, action.y, visible_ui))
  /\ gear_tap' = IF MentionsGear(next_step)
                 THEN [run |-> run, iter |-> step_count,
                       x |-> action.x, y |-> action.y]
                 ELSE gear_tap

\* a try block without its except clause: the exception leaves run_test_case
\* and __main__
RunActionPropagates(resolved, action, commands, device_ok) ==
  IF ActionRaises(action) \/ (Len(commands) > 0 /\ ~device_ok)
  THEN /\ events' = events \o ExecEvents(resolved, <<>>)
       /\ pc' = "crash"
       /\ UNCHANGED <<step_count, data, file, clock, gear_tap, run, result, exit_at, ended>>
  ELSE /\ events' = events \o ExecEvents(resolved, commands)
       /\ IF action.action = "tap" THEN TapDone(action)
          ELSE UNCHANGED <<data, file, clock, gear_tap>>
       /\ step_count' = step_count + 1
       /\ pc' = "loop"
       /\ UNCHANGED <<run, result, exit_at, ended>>

\* an iteration that runs its action and does not count the step
RunActionUncounted(resolved, action, commands, device_ok) ==
  /\ events' = events \o ExecEvents(resolved, commands)
  /\ pc' = "loop"
  /\ UNCHANGED <<step_count, data, file, clock, gear_tap, run, result, exit_at, ended>>

\* the try block after execute_step returned action_data: the device commands
\* run, a Tap is handled, step_count += 1; an exception breaks out of the loop
RunAction(resolved, action, commands, device_ok) ==
  IF ActionRaises(action) \/ (Len(commands) > 0 /\ ~device_ok)
  THEN /\ events' = events \o ExecEvents(resolved, <<>>)
       /\ EndRun("None", "execution_error")
       /\ UNCHANGED <<step_count, data, file, clock, gear_tap>>
  ELSE /\ events' = events \o ExecEvents(resolved, commands)
       /\ IF action.action = "tap" THEN TapDone(action)
          ELSE UNCHANGED <<data, file, clock, gear_tap>>
       /\ step_count' = step_count + 1
       /\ pc' = "loop"
       /\ UNCHANGED <<run, result, exit_at, ended>>

\* 4. Execute: resolve the step to an action and run it on the device
Execute ==
  /\ pc = "execute"
  /\ \E outcome \in OracleOutcomes(Mem, screen_size, next_step, target.bounds),
        device_ok \in BOOLEAN :
       IF outcome.raises /\ outcome.called
       THEN /\ events' = events \o <<"resolve", "vision">>
            /\ EndRun("None", "execution_error")
            /\ UNCHANGED <<step_count, data, file, clock, gear_tap, action_data,
                           vision_response>>
       ELSE \E resolved \in {execute_step(Mem, screen_size, next_step, target.bounds,
                                          outcome.text)} :
              /\ action_data' = resolved.action
              /\ vision_response' = IF outcome.called THEN [text |-> outcome.text]
                                    ELSE None
              /\ RunAction(resolved, resolved.action,
                           DeviceCommands(resolved.action, history, target), device_ok)
  /\ UNCHANGED <<history, visible_ui, status, next_step, target, ui, screen_size, varied,
                 iterations, logged, call, returned>>

\* the device's screen changes while the loop runs. The program reads the
\* screen in Observe and in DetectTarget only, so a change at any other moment
\* is the same as a change just before the next of these reads.
UIChange ==
  /\ pc \in {"loop", "detect"}
  /\ ui' \in UIs \ {ui}
  /\ UNCHANGED <<pc, run, step_count, history, visible_ui, status, next_step, target,
                 result, exit_at, ended, data, file, clock, screen_size, events, varied, gear_tap,
                 iterations, logged,
                 action_data, vision_response, call, returned>>

\* the steps of the program
Program ==
  \/ StartRun \/ NoDevice \/ Finish \/ Exhaust \/ Observe \/ Uncaught
  \/ Verify \/ Plan \/ DetectTarget \/ Execute

Next == Program \/ UIChange

Spec == Init /\ [][Next]_vars

\* the process has stopped: __main__ returned, exit(1), or an uncaught exception
Stopped == pc \in {"halt", "exit1", "crash"}

\* The program is sequential and every external call returns or raises: a
\* step that can be taken is taken. This is WF_vars(Program) written out:
\* a step of Program is possible exactly when the process has not stopped.
FairSpec == Spec /\ ([]<>Stopped \/ []<><<Program>>_vars)

\* ------------------------------------------------------------------------
\* AgentMemory on its own: after load, a caller makes any sequence of calls
\* ------------------------------------------------------------------------

\* the number of calls that a caller makes
MaxCalls == 3

\* a success log and a failure log of n entries written before the load
OldSuccesses(n) ==
  [i \in 1..n |-> [action |-> "Completed: earlier", context |-> "", time |-> i - n]]

OldFailures(n) ==
  [i \in 1..n |-> [action |-> "Tap 'OK'", context |-> "", reason |-> "", time |-> i - n]]

\* a stored location
OldLocation(key) ==
  [key |-> key, val |-> [x |-> 850, y |-> 150, context |-> "", found_at |-> 0]]

\* the stored locations of the documents
StoredLocations ==
  {<<>>, <<OldLocation("gear")>>, <<OldLocation("gear icon"), OldLocation("settings")>>,
   <<OldLocation("menu")>>}

\* the documents that load reads: logs that are empty, or one entry short of
\* their caps
MemDocuments ==
  {[element_locations |-> locs, successful_actions |-> OldSuccesses(n[1]),
    failed_actions |-> OldFailures(n[2]), app_knowledge |-> <<>>,
    session_context |-> <<>>] :
     locs \in StoredLocations, n \in {<<0, 0>>, <<SuccessCap - 1, FailureCap - 1>>}}

\* the arguments of the calls
ElementNames == {"gear", " Gear Icon", "menu"}
FailedActions == {"Tap the GEAR icon", "Open Settings", "Tap 'OK'"}
Queries == {"gear", " GEAR Icon ", "the settings gear", "menu", "back"}

MemInit ==
  /\ pc = "api"
  /\ run = 1
  /\ step_count = 0
  /\ history = <<>>
  /\ visible_ui = ""
  /\ status = ""
  /\ next_step = ""
  /\ target = NoTarget
  /\ result = "None"
  /\ exit_at = "none"
  /\ ended = {}
  /\ file \in {None} \cup MemDocuments
  /\ data = load(file)
  /\ clock = 0
  /\ ui = NoDump
  /\ screen_size \in ScreenSizes
  /\ events = <<>>
  /\ varied = 0
  /\ gear_tap = None
  /\ iterations = 0
  /\ logged = Logs(data)
  /\ action_data = None
  /\ vision_response = None
  /\ call = None
  /\ returned = None

\* a call: the memory it leaves, and its name and argument in events
Call(m, name, argument) ==
  /\ Len(events) < 2 * MaxCalls
  /\ SetMem(m)
  /\ events' = events \o <<name, argument>>
  /\ logged' = [successes |->
                  IF name = "remember_successful_action"
                  THEN Logged(logged.successes, m.data.successful_actions)
                  ELSE logged.successes,
                failures |->
                  IF name = "remember_failed_action"
                  THEN Logged(logged.failures, m.data.failed_actions)
                  ELSE logged.failures]
  /\ UNCHANGED <<pc, run, step_count, history, visible_ui, status, next_step, target,
                 result, exit_at, ended, ui, screen_size, varied, gear_tap, iterations,
                 action_data, vision_response, call, returned>>

RememberLocation ==
  /\ pc = "api"
  /\ \E name \in ElementNames :
       Call(remember_element_location(Mem, name, 80, 160, "Home"),
            "remember_element_location", name)

RememberSuccess ==
  /\ pc = "api"
  /\ Call(remember_successful_action(Mem, "Completed: now", "Home"),
          "remember_successful_action", "Completed: now")

RememberFailure ==
  /\ pc = "api"
  /\ \E action \in FailedActions :
       Call(remember_failed_action(Mem, action, "Home", "not found"),
            "remember_failed_action", action)

Forget ==
  /\ pc = "api"
  /\ \E name \in ElementNames : Call(forget_element(Mem, name), "forget_element", name)

SetSession ==
  /\ pc = "api"
  /\ Call(set_session_context(Mem, "pending_gear_location", [x |-> 80, y |-> 160]),
          "set_session_context", "pending_gear_location")

ClearSession ==
  /\ pc = "api"
  /\ Call(clear_session(Mem), "clear_session", "")

\* recall_element_location returns a value and assigns nothing
Recall ==
  /\ pc = "api"
  /\ \E name \in Queries : Call(Mem, "recall_element_location", name)

MemNext ==
  \/ RememberLocation \/ RememberSuccess \/ RememberFailure
  \/ Forget \/ SetSession \/ ClearSession \/ Recall

MemSpec == MemInit /\ [][MemNext]_vars

\* ------------------------------------------------------------------------
\* Properties of the control loop
\* ------------------------------------------------------------------------

\* the positions inside the loop body
Body == InLoop \ {"loop"}

\* the pending gear verification held by the session context of record d
PendingOf(d) == DictGet(d.session_context, "pending_gear_location", None)

\* the location stored under "gear" in record d
GearOf(d) == DictGet(d.element_locations, "gear", None)

\* the step in which the Supervisor answers
SupervisorAnswers == pc = "verify" /\ events' = Append(events, "verify")

\* the step in which the Planner answers
PlannerAnswers == pc = "plan" /\ events' = Append(events, "plan")

\* the step in which the loop body is entered
Observes == pc = "loop" /\ pc' \in Body

\* a step inside the loop body keeps step_count, or completes the iteration
\* with step_count + 1, or ends the run
C1_Iteration ==
  pc \in Body =>
    \/ pc' \in Body /\ step_count' = step_count /\ iterations' = iterations
    \/ pc' = "loop" /\ step_count' = step_count + 1 /\ iterations' = iterations
    \/ pc' \in {"main", "crash"}

\* C1: run_test_case terminates for every sequence of oracle responses: an
\* iteration ends the run or adds exactly one to step_count, the loop body is
\* entered at most 15 times in a run, and a run that is in the loop leaves it.
C1_Terminates ==
  /\ [][C1_Iteration]_vars
  /\ [](/\ iterations <= 15
        /\ pc = "loop" => iterations = step_count
        /\ pc \in Body => iterations = step_count + 1)
  /\ [](pc \in InLoop => <>(pc \notin InLoop))

\* a run has used its whole budget: fifteen iterations, then Exhausted
C1_Witness == pc = "main" /\ exit_at = "exhausted" /\ iterations = 15

\* at step_count = 15 the program's only step ends the run as Exhausted,
\* with no event and no change of memory
C2_AtBudget ==
  (step_count = 15 /\ pc = "loop") =>
    \/ pc' = "loop" /\ UNCHANGED <<events, data, file, step_count, iterations>>
    \/ /\ pc' = "main" /\ exit_at' = "exhausted" /\ result' = "None"
       /\ UNCHANGED <<events, data, file, step_count, iterations>>

\* C2: step_count never exceeds 15; at 15 the run ends Exhausted without a
\* further observation, Supervisor call, Planner call or device action; the
\* result of an Exhausted run is not the result of a Failed run.
C2_Budget ==
  /\ [](/\ step_count <= 15
        /\ step_count = 15 => pc \notin Body
        /\ (step_count = 15 /\ pc \in {"main", "halt"}) => exit_at = "exhausted"
        /\ exit_at = "exhausted" => step_count = 15 /\ result = "None"
        /\ exit_at \in {"supervisor_fail", "planner_fail"} => result = "False")
  /\ [][C2_AtBudget]_vars

\* the program has finished after an Exhausted last run
C2_Witness == pc = "halt" /\ exit_at = "exhausted" /\ step_count = 15

\* what the loop does with the Supervisor's answer
C3_Answered ==
  SupervisorAnswers =>
    /\ step_count >= 3
    /\ Contains(status', "PASS") =>
         pc' = "main" /\ result' = "True" /\ exit_at' = "supervisor_pass"
    /\ (~Contains(status', "PASS") /\ Contains(status', "FAIL") /\ step_count > 7) =>
         pc' = "main" /\ result' = "False" /\ exit_at' = "supervisor_fail"
    /\ (~Contains(status', "PASS") /\ ~(Contains(status', "FAIL") /\ step_count > 7)) =>
         /\ pc' = "plan"
         /\ UNCHANGED <<step_count, iterations, run, result, exit_at, ended>>

\* C3: the Supervisor is consulted only in iterations with step_count >= 3; its
\* PASS ends the run Passed; its FAIL ends the run Failed only if
\* step_count > 7, and with step_count <= 7 the iteration goes on to Planning.
C3_Supervisor ==
  /\ [][C3_Answered]_vars
  /\ [](/\ pc = "verify" => step_count >= 3
        /\ InSeq("verify", events) => step_count >= 3
        /\ exit_at = "supervisor_fail" => step_count > 7)

\* the Supervisor has answered FAIL within the grace window and the same
\* iteration is Planning
C3_Witness ==
  /\ pc = "plan" /\ status = "FAIL" /\ step_count = 7
  /\ events = <<"observe", "verify">>

\* C4: when the Planner returns DONE the run ends Passed, the outcome of a
\* Supervisor PASS, after exactly one entry is appended to the success log;
\* the step is not added to history and no action is resolved or executed.
C4_DonePassed ==
  [][(PlannerAnswers /\ next_step' = "DONE") =>
       /\ pc' = "main" /\ result' = "True"
       /\ Len(data'.successful_actions) = Len(data.successful_actions) + 1
       /\ data'.failed_actions = data.failed_actions
       /\ UNCHANGED <<history, step_count>>]_vars

\* C5: when the Planner returns 'FAIL: <reason>', whatever the reason, the run
\* ends Failed after one entry is appended to the failure log, and no entry is
\* put in the success log.
C5_FailFailed ==
  [][(PlannerAnswers /\ StartsWith(next_step', "FAIL: ")) =>
       /\ pc' = "main" /\ result' = "False"
       /\ Len(data'.failed_actions) = Len(data.failed_actions) + 1
       /\ data'.successful_actions = data.successful_actions]_vars

\* the phase of an event within an iteration
Phase(e) ==
  CASE e = "observe" -> 1
    [] e = "verify" -> 2
    [] e = "plan" -> 3
    [] e = "detect" -> 4
    [] e \in {"resolve", "vision"} -> 5
    [] OTHER -> 6

\* the events of an iteration are in the order of the phases, every phase
\* before the device commands happens once, and a phase is preceded by the
\* phases it depends on
C6_InOrder ==
  /\ \A i, j \in 1..Len(events) :
       i < j => /\ Phase(events[i]) <= Phase(events[j])
                /\ Phase(events[i]) <= 4 => Phase(events[i]) < Phase(events[j])
  /\ events # <<>> => events[1] = "observe"
  /\ \A i \in 1..Len(events) :
       /\ Phase(events[i]) >= 4 => InSeq("plan", events)
       /\ Phase(events[i]) >= 5 => InSeq("detect", events)
       /\ Phase(events[i]) = 6 => InSeq("resolve", events)

\* C6: in every iteration the events occur in the order observation,
\* Supervisor verification (if any), Planner call, detection and resolution,
\* device action; no device action precedes the iteration's Planner call, and
\* the next observation follows the completed action of the iteration before.
C6_Order ==
  /\ []C6_InOrder
  /\ [][(Observes /\ iterations >= 1) =>
          /\ events' = <<"observe">>
          /\ InSeq("resolve", events)
          /\ step_count = iterations]_vars

\* an iteration with all its phases: verification, the vision oracle, a tap
C6_Witness ==
  events = <<"observe", "verify", "plan", "detect", "resolve", "vision", "tap">>

\* an executed Tap of a gear/settings step leaves its coordinates pending
C7_TapPends ==
  (/\ pc = "execute" /\ pc' = "loop"
   /\ events'[Len(events')] = "tap"
   /\ MentionsGear(next_step)) =>
    /\ gear_tap' # None /\ gear_tap'.run = run /\ gear_tap'.iter = step_count
    /\ PendingOf(data') = [x |-> gear_tap'.x, y |-> gear_tap'.y]

\* the observation memorizes the pending coordinates under "gear" exactly when
\* a settings indicator is visible
C7_Promotes ==
  Observes =>
    IF PendingOf(data) # None /\ SettingsVisible(visible_ui')
    THEN /\ GearOf(data').x = PendingOf(data).x
         /\ GearOf(data').y = PendingOf(data).y
         /\ GearOf(data').context = "Settings screen"
    ELSE data'.element_locations = data.element_locations

\* C7: after a Tap executed for a step that mentions 'gear' or 'settings' the
\* session context holds a pending verification with the tap's coordinates; the
\* next observation memorizes them under 'gear' if and only if the visible text
\* contains a settings indicator, and the pending verification is cleared
\* before Planning in either case.
C7_PendingGear ==
  /\ [][C7_TapPends]_vars
  /\ [][C7_Promotes]_vars
  /\ [](/\ gear_tap # None => PendingOf(data) = [x |-> gear_tap.x, y |-> gear_tap.y]
        /\ pc \in Body => PendingOf(data) = None)

\* the tap on the Settings icon at (80, 160) has been confirmed and memorized
C7_Witness ==
  /\ pc = "plan" /\ GearOf(data) # None
  /\ GearOf(data).x = 80 /\ GearOf(data).y = 160
  /\ PendingOf(data) = None

\* C8: during a run a 'gear' location is written only by the promotion of a
\* pending verification, with the coordinates of a Tap executed in the
\* iteration just before, in the same run, for a gear/settings step.
C8_GearFromTap ==
  [][(GearOf(data') # GearOf(data) /\ GearOf(data') # None) =>
       /\ Observes
       /\ gear_tap # None /\ gear_tap.run = run /\ gear_tap.iter = step_count - 1
       /\ GearOf(data').x = gear_tap.x /\ GearOf(data').y = gear_tap.y]_vars

\* ------------------------------------------------------------------------
\* Properties of AgentMemory
\* ------------------------------------------------------------------------

\* the last two calls are remember_element_location("gear") and then
\* remember_failed_action of an action that contains "gear" in any case
GearThenFailure(calls) ==
  /\ Len(calls) >= 4
  /\ SubSeq(calls, Len(calls) - 3, Len(calls) - 2) = <<"remember_element_location", "gear">>
  /\ calls[Len(calls) - 1] = "remember_failed_action"
  /\ Contains(Lower(calls[Len(calls)]), "gear")

\* key k answers a recall of "gear"
RelatedToGear(k) == Contains(k, "gear") \/ Contains("gear", k)

\* the stored locations without the keys "gear" and "settings"
OtherLocations(locs) ==
  SelectSeq(locs, LAMBDA e : e.key \notin {"gear", "settings"})

\* C9 as stated: after rememberLocation('gear') and then rememberFailure of an
\* action containing 'gear', recallLocation('gear') returns none, whatever
\* else the memory holds.
C9_RecallNone ==
  GearThenFailure(events) => recall_element_location(Mem, "gear") = None

\* C9 as amended: after rememberLocation('gear') and then rememberFailure of an
\* action containing 'gear', nothing is stored under 'gear' or 'settings', the
\* other locations are as before, and recallLocation('gear') returns none
\* provided that no other stored key contains 'gear' or is contained in it.
C9_GearEvicted ==
  [][GearThenFailure(events') =>
       /\ data'.element_locations = OtherLocations(data.element_locations)
       /\ (\A i \in 1..Len(data.element_locations) :
             data.element_locations[i].key \in {"gear", "settings"}
             \/ ~RelatedToGear(data.element_locations[i].key))
          => recall_element_location([data |-> data', file |-> file', clock |-> clock'],
                                     "gear") = None]_vars

\* the gear location has been stored and evicted again while "menu" stays, and
\* the recall of "gear" finds nothing
C9_Witness ==
  /\ GearThenFailure(events)
  /\ DictHas(data.element_locations, "menu")
  /\ recall_element_location(Mem, "gear") = None

\* log holds the last entries of all, at most cap of them, in insertion order
KeptLast(log, all, cap) ==
  /\ Len(log) = IF Len(all) < cap THEN Len(all) ELSE cap
  /\ log = SubSeq(all, Len(all) - Len(log) + 1, Len(all))

\* C10: after any sequence of rememberFailure and rememberSuccess calls the
\* failure log holds at most 50 entries and the success log at most 100, and
\* they are the most recently inserted entries, in insertion order.
C10_BoundedLogs ==
  /\ Len(data.failed_actions) <= 50
  /\ Len(data.successful_actions) <= 100
  /\ KeptLast(data.failed_actions, logged.failures, 50)
  /\ KeptLast(data.successful_actions, logged.successes, 100)

\* a failure has been inserted into a full failure log: the oldest is dropped
C10_Witness ==
  /\ Len(logged.failures) = 51
  /\ Len(data.failed_actions) = 50
  /\ data.failed_actions[1] = logged.failures[2]
  /\ data.failed_actions[50].action = "Open Settings"

\* the name and the argument of the last call
LastCall == SubSeq(events, Len(events) - 1, Len(events))

\* the last call is one of the methods that change the memory
Mutated ==
  /\ events # <<>>
  /\ LastCall[1] \in {"remember_element_location", "remember_successful_action",
                      "remember_failed_action", "forget_element",
                      "set_session_context", "clear_session"}

C11_Call ==
  LET name == events'[Len(events') - 1]
      argument == events'[Len(events')]
  IN events' # events =>
       /\ name \in {"remember_element_location", "remember_successful_action",
                    "remember_failed_action"}
            => file' = data'
       /\ name = "forget_element" =>
            IF DictHas(data.element_locations, Strip(Lower(argument)))
            THEN file' = data' /\ data' # data
            ELSE file' = file /\ data' = data
       /\ name \in {"set_session_context", "clear_session", "recall_element_location"}
            => file' = file

C12_ClearSession ==
  [][(events' # events /\ events'[Len(events') - 1] = "clear_session") =>
       /\ data'.session_context = <<>>
       /\ data'.element_locations = data.element_locations
       /\ data'.successful_actions = data.successful_actions
       /\ data'.failed_actions = data.failed_actions
       /\ data'.app_knowledge = data.app_knowledge]_vars

\* clear_session after set_session_context, with locations and logs stored
C12_Witness ==
  /\ Len(events) = 4
  /\ events[1] = "set_session_context"
  /\ events[3] = "clear_session"
  /\ data.session_context = <<>>
  /\ data.element_locations # <<>>
  /\ data.failed_actions # <<>>

\* stored key k is related to the normalized query q
Related(k, q) == Contains(q, k) \/ Contains(k, q)

\* recall of name in memory record d: the coordinates of the first related
\* key in insertion order, none exactly when no stored key is related
C13_RecallOf(d, name) ==
  LET q == Strip(Lower(name))
      locs == d.element_locations
      r == recall_element_location([data |-> d, file |-> file, clock |-> clock], name)
  IN /\ (r = None) <=> (\A i \in 1..Len(locs) : ~Related(locs[i].key, q))
     /\ r # None =>
          \E i \in 1..Len(locs) :
            /\ Related(locs[i].key, q)
            /\ \A j \in 1..(i - 1) : ~Related(locs[j].key, q)
            /\ r = [x |-> locs[i].val.x, y |-> locs[i].val.y]

\* C13: recallLocation(q) returns the coordinates of the first stored key, in
\* insertion order, that contains the normalized query or is contained in it;
\* it returns none if and only if no stored key is related to the query; it
\* never changes the memory.
C13_Recall ==
  /\ [](\A name \in Queries : C13_RecallOf(data, name))
  /\ [][(events' # events /\ events'[Len(events') - 1] = "recall_element_location")
          => data' = data /\ file' = file /\ clock' = clock]_vars

\* "settings" and "gear" are both stored and related to the query; the recall
\* answers with "settings", which was inserted first
C13_Witness ==
  /\ events # <<>>
  /\ LastCall = <<"recall_element_location", "the settings gear">>
  /\ DictHas(data.element_locations, "settings")
  /\ GearOf(data) # None /\ GearOf(data).x = 80
  /\ recall_element_location(Mem, "the settings gear") = [x |-> 850, y |-> 150]

\* ------------------------------------------------------------------------
\* Executor.execute_step called on its own (src/main.py 895-1015): one call
\* with a memory, a step, a target hint and a screen size, and the vision
\* oracle's outcome when the slow path is reached.
\* ------------------------------------------------------------------------

LocationAt(key, x, y) ==
  [key |-> key, val |-> [x |-> x, y |-> y, context |-> "", found_at |-> 0]]

\* the element locations that memory.json holds when execute_step is called
ResolveLocations ==
  {<<>>,
   <<LocationAt("gear", 850, 150)>>,
   <<LocationAt("menu", 40, 90), LocationAt("settings", 60, 120),
     LocationAt("gear icon", 80, 160)>>,
   <<LocationAt("back", 30, 70)>>}

\* the texts X of the steps  Type 'X'
TypedTexts == {"Daily Standup", "tap here", "it's", "\"", "swipe up", "scroll"}

TypeStep(X) == "Type '" \o X \o "'"

\* the step descriptions passed to execute_step
ResolveSteps ==
  {TypeStep(X) : X \in TypedTexts}
  \cup {"Tap the gear icon", "Tap the settings menu", "Tap the 'OK' button",
        "Tap and press the down arrow", "Tap the menu, press down arrow",
        "Swipe up and type 'x'", "Scroll down to tap back",
        "Press the up arrow then swipe down", "Press enter",
        "Type the name", "Type \"'\"", "Open the drawer",
        "Swipe left", "Scroll to the end", "Scroll down to the Update button"}

\* the target hints passed to execute_step: None, or the bounds of a node
ResolveHints ==
  {None,
   [x1 |-> 100, y1 |-> 200, x2 |-> 400, y2 |-> 260],
   [x1 |-> 101, y1 |-> 201, x2 |-> 400, y2 |-> 260],
   [x1 |-> 400, y1 |-> 260, x2 |-> 100, y2 |-> 200]}

ResolveInit ==
  /\ pc = "resolve"
  /\ \E locations \in ResolveLocations :
       data = [DefaultData EXCEPT !.element_locations = locations]
  /\ file = data
  /\ next_step \in ResolveSteps
  /\ \E hint \in ResolveHints : target = Found(hint, "Target")
  /\ screen_size \in ScreenSizes
  /\ run = TestCases
  /\ step_count = 0
  /\ history = <<>>
  /\ visible_ui = ""
  /\ status = ""
  /\ result = "None"
  /\ exit_at = "none"
  /\ ended = {}
  /\ clock = 0
  /\ ui = NoDump
  /\ events = <<>>
  /\ varied = 0
  /\ gear_tap = None
  /\ iterations = 0
  /\ logged = Logs(data)
  /\ action_data = None
  /\ vision_response = None
  /\ call = None
  /\ returned = None

\* action_data = executor.execute_step(next_step, screenshot, target_hint):
\* the call returns an action, or the oracle's exception leaves it
Resolve ==
  /\ pc = "resolve"
  /\ \E outcome \in OracleOutcomes(Mem, screen_size, next_step, target.bounds) :
       IF outcome.raises /\ outcome.called
       THEN /\ events' = events \o <<"resolve", "vision">>
            /\ pc' = "raised"
            /\ UNCHANGED <<action_data, vision_response, call, returned>>
       ELSE \E resolved \in {execute_step(Mem, screen_size, next_step, target.bounds,
                                          outcome.text)} :
              /\ action_data' = resolved.action
              /\ vision_response' = IF outcome.called THEN [text |-> outcome.text]
                                    ELSE None
              /\ events' = events \o ExecEvents(resolved, <<>>)
              /\ pc' = "resolved"
  /\ UNCHANGED <<run, step_count, history, visible_ui, status, next_step, target, result,
                 exit_at, ended, data, file, clock, ui, screen_size, varied, gear_tap,
                 iterations, logged, call, returned>>

ResolveNext == Resolve

ResolveSpec == ResolveInit /\ [][ResolveNext]_vars

\* the vision oracle has been called in this resolution
VisionCalled == \E i \in 1..Len(events) : events[i] = "vision"

\* what each of the five rules yields for this call, in the order memorized
\* location, key press, swipe, structured-hint tap, quoted-text type; None
\* when the rule's condition does not hold
RuleResults ==
  <<MemoryRule(Mem, Lower(next_step), target.bounds),
    KeyRule(Lower(next_step)),
    SwipeRule(Lower(next_step), screen_size),
    HintRule(Lower(next_step), target.bounds),
    TypeRule(next_step)>>

\* C14: the resolver applies its rules in the fixed order memorized-location,
\* key-press, swipe, structured-hint tap, quoted-text type, vision fallback:
\* its result is the result of the first rule whose condition holds, and the
\* vision oracle is called only when none of the first five rules produced an
\* action.
C14_FirstRule ==
  LET applicable == {i \in 1..Len(RuleResults) : RuleResults[i] # None}
  IN /\ pc = "resolved" =>
          IF applicable = {}
          THEN /\ VisionCalled
               /\ vision_response # None
               /\ action_data = VisionRule(next_step, vision_response.text)
          ELSE /\ ~VisionCalled
               /\ action_data = RuleResults[Least(applicable)]
     /\ VisionCalled => applicable = {}

\* a step to which the memorized-location rule and the key-press rule both
\* apply has been resolved by the memorized location, without the oracle
C14_Witness ==
  /\ pc = "resolved"
  /\ next_step = "Tap the menu, press down arrow"
  /\ RuleResults[1] = Tap(40, 90)
  /\ RuleResults[2] = Key(20)
  /\ action_data = Tap(40, 90)
  /\ ~VisionCalled

\* the memory with no stored location
NothingStored == [Mem EXCEPT !.data = [data EXCEPT !.element_locations = <<>>]]

\* what execute_step returns for this call when memory holds no location and
\* the oracle, if called, answers as it did
Unmemorized ==
  execute_step(NothingStored, screen_size, next_step, target.bounds,
               IF vision_response = None THEN "" ELSE vision_response.text)

\* C15: the resolver returns a Tap at memorized coordinates only when no
\* target hint was supplied, the step contains 'tap' and the step contains one
\* of the keywords gear, settings, menu, back, expand for which recall hits;
\* the keywords are tried in that order and the first hit is returned with no
\* vision call; in every other case, a supplied hint among them, the result is
\* what it is with nothing memorized.
C15_Memorized ==
  LET keywords == <<"gear", "settings", "menu", "back", "expand">>
      step_lower == Lower(next_step)
      hits == {k \in 1..Len(keywords) :
                 /\ Contains(step_lower, keywords[k])
                 /\ recall_element_location(Mem, keywords[k]) # None}
      remembered == recall_element_location(Mem, keywords[Least(hits)])
  IN pc = "resolved" =>
       IF target.bounds = None /\ Contains(step_lower, "tap") /\ hits # {}
       THEN /\ action_data = Tap(remembered.x, remembered.y)
            /\ ~VisionCalled
       ELSE /\ action_data = Unmemorized.action
            /\ VisionCalled = Unmemorized.vision

\* a step with two keywords, both memorized: the tap is at the location of
\* settings, the earlier keyword, though menu was stored first
C15_Witness ==
  /\ pc = "resolved"
  /\ next_step = "Tap the settings menu"
  /\ target.bounds = None
  /\ recall_element_location(Mem, "menu") = [x |-> 40, y |-> 90]
  /\ recall_element_location(Mem, "settings") = [x |-> 60, y |-> 120]
  /\ action_data = Tap(60, 120)
  /\ ~VisionCalled

\* C16: given hint bounds (x1,y1,x2,y2) and a step containing 'tap' to which
\* no earlier rule applies, the resolver returns Tap at
\* ((x1+x2) div 2, (y1+y2) div 2) without calling the vision oracle; the point
\* lies inside the bounds whenever x1 <= x2 and y1 <= y2, and bounds
\* [100,200][400,260] give (250,230).
C16_HintCentroid ==
  LET b == target.bounds
      step_lower == Lower(next_step)
  IN pc = "resolved" /\ b # None /\ Contains(step_lower, "tap")
     /\ MemoryRule(Mem, step_lower, b) = None /\ KeyRule(step_lower) = None
     /\ SwipeRule(step_lower, screen_size) = None
     => /\ action_data = Tap((b.x1 + b.x2) \div 2, (b.y1 + b.y2) \div 2)
        /\ ~VisionCalled
        /\ b.x1 <= b.x2 /\ b.y1 <= b.y2 =>
             /\ b.x1 <= action_data.x /\ action_data.x <= b.x2
             /\ b.y1 <= action_data.y /\ action_data.y <= b.y2
        /\ b = [x1 |-> 100, y1 |-> 200, x2 |-> 400, y2 |-> 260] =>
             action_data = Tap(250, 230)

\* a tap step has been resolved with the bounds [100,200][400,260] as hint
C16_Witness ==
  /\ pc = "resolved"
  /\ next_step = "Tap the 'OK' button"
  /\ target.bounds = [x1 |-> 100, y1 |-> 200, x2 |-> 400, y2 |-> 260]
  /\ action_data = Tap(250, 230)
  /\ ~VisionCalled

\* ------------------------------------------------------------------------
\* One iteration of run_test_case from element detection on
\* (src/main.py 1123-1348): the Planner has returned a tap step that names a
\* button, detection reads the dump, the step is resolved and executed.
\* ------------------------------------------------------------------------

\* the labels T of the steps  Tap the 'T' button
StepLabels ==
  {"Create a vault", "Add field", "OK", "Scroll down", "Open settings", "Enable sync",
   "Don't ask", "Continue"}

TapStep(T) == "Tap the '" \o T \o "' button"

\* a screen with a caption that holds the button's text, and the button
VaultDump ==
  [kind |-> "xml",
   nodes |-> <<
     Node("", "", "", "", "", "", "", 2),
     Node("Tap Create a vault to begin", "", "android.widget.TextView", "",
          "[0,100][1080,160]", "false", "false", 0),
     Node("Create a vault", "", "android.widget.Button", "", "[100,200][400,260]",
          "true", "false", 0)>>]

\* a screen with two buttons whose texts differ in letter case only
CaseDump ==
  [kind |-> "xml",
   nodes |-> <<
     Node("", "", "", "", "", "", "", 2),
     Node("create a vault", "", "android.widget.Button", "", "[100,300][400,360]",
          "true", "false", 0),
     Node("Create a vault", "", "android.widget.Button", "", "[100,200][400,260]",
          "true", "false", 0)>>]

\* a screen whose button has no bounds, and a clickable text that contains
\* the button's text
UnboundedDump ==
  [kind |-> "xml",
   nodes |-> <<
     Node("", "", "", "", "", "", "", 2),
     Node("Create a vault", "", "android.widget.Button", "", "", "true", "false", 0),
     Node("Create a vault now", "", "android.widget.TextView", "", "[100,300][400,360]",
          "true", "false", 0)>>]

\* a form: a text field, a labelled settings icon, a switch and buttons
FormDump ==
  [kind |-> "xml",
   nodes |-> <<
     Node("", "", "", "", "", "", "", 11),
     Node("", "Settings", "android.widget.ImageView", "", "[40,120][120,200]",
          "true", "false", 0),
     Node("", "", "android.widget.EditText", "", "[100,400][900,500]", "true", "false", 0),
     Node("", "", "android.widget.Switch", "", "[800,900][900,960]", "true", "true", 0),
     Node("Done", "", "android.widget.Button", "", "[100,500][400,560]", "true", "false", 0),
     Node("Add field", "", "android.widget.Button", "", "[100,600][400,660]",
          "true", "false", 0),
     Node("OK", "", "android.widget.Button", "", "[500,600][800,660]", "true", "false", 0),
     Node("Scroll down", "", "android.widget.Button", "", "[100,700][400,760]",
          "true", "false", 0),
     Node("Open settings", "", "android.widget.Button", "", "[100,800][400,860]",
          "true", "false", 0),
     Node("Enable sync", "", "android.widget.Button", "", "[100,900][400,960]",
          "true", "false", 0),
     Node("Don't ask", "", "android.widget.Button", "", "[100,1000][400,1060]",
          "true", "false", 0),
     Node("Continue", "", "android.widget.Button", "", "[100,1100][400,1160]",
          "true", "false", 0)>>]

StepDumps == {NoDump, VaultDump, CaseDump, UnboundedDump, FormDump}

\* steps that name the menu or the back arrow
MenuSteps ==
  {"Tap the 'Add field' button of the menu",
   "Tap the body area below the menu",
   "Enable the switch and go back"}

\* the state in which the first iteration of a run reaches element detection:
\* the screen has been observed, the Planner's step is in the history
StepInit ==
  /\ pc = "detect"
  /\ run = TestCases
  /\ step_count = 0
  /\ \/ \E T \in StepLabels : next_step = TapStep(T)
     \/ next_step \in MenuSteps
  /\ history = <<next_step>>
  /\ ui \in StepDumps
  /\ visible_ui = dump_visible_text(ui)
  /\ status = ""
  /\ target = NoTarget
  /\ result = "None"
  /\ exit_at = "none"
  /\ ended = {}
  /\ \E f \in InitialFiles :
       \E m \in {ObservePending([data |-> load(f), file |-> f, clock |-> 0],
                                dump_visible_text(ui))} :
         data = m.data /\ file = m.file /\ clock = m.clock
  /\ screen_size \in ScreenSizes
  /\ events = <<"observe", "plan">>
  /\ varied = 1
  /\ gear_tap = None
  /\ iterations = 1
  /\ logged = Logs(data)
  /\ action_data = None
  /\ vision_response = None
  /\ call = None
  /\ returned = None

StepNext == DetectTarget \/ Execute

StepSpec == StepInit /\ [][StepNext]_vars

\* the centre of bounds b
Centroid(b) == [x |-> (b.x1 + b.x2) \div 2, y |-> (b.y1 + b.y2) \div 2]

\* a clickable Button node of the dump whose text is exactly T
IsButtonNamed(n, T) ==
  n.clickable = "true" /\ Contains(n.class, "Button") /\ n.text = T

\* the resolved action is a tap at the centre of node n
TapsNode(n) ==
  /\ action_data # None
  /\ action_data.action = "tap"
  /\ {"x", "y"} \subseteq DOMAIN action_data
  /\ ParseBounds(n.bounds) # None
  /\ [x |-> action_data.x, y |-> action_data.y] = Centroid(ParseBounds(n.bounds))

\* the step has been resolved to a tap
TapResolved ==
  /\ pc \notin {"detect", "execute"}
  /\ action_data # None
  /\ action_data.action = "tap"

SelectingWords ==
  {"settings", "gear", "cog", "preferences", "body", "content area",
   "input", "field", "textbox", "text box", "text field", "type in", "enter text",
   "vault name", "allow", "deny", "permit", "grant", "ok", "cancel", "accept", "decline",
   "toggle", "switch", "enable", "press", "swipe", "scroll"}

\* T is not empty, holds no quote character, and has no white space around it
PlainLabel(T) ==
  /\ T # ""
  /\ \A p \in 1..Len(T) : SubSeq(T, p, p) \notin Quotes
  /\ Strip(T) = T

C18_TypeQuoted ==
  \A X \in TypedTexts :
    next_step = TypeStep(X) /\ pc # "resolve"
    => pc = "resolved" /\ action_data = Type(X) /\ ~VisionCalled

\* the wording by which the key-press rule selects a step
KeyWording(step_lower) ==
  \/ /\ Contains(step_lower, "press") /\ Contains(step_lower, "arrow")
     /\ \E d \in {"down", "up", "left", "right"} : Contains(step_lower, d)
  \/ Contains(step_lower, "press enter")
  \/ Contains(step_lower, "press return")

\* the wording by which the swipe rule selects a step
SwipeWording(step_lower) ==
  /\ Contains(step_lower, "swipe") \/ Contains(step_lower, "scroll")
  /\ Contains(step_lower, "up") \/ Contains(step_lower, "down")

\* X is not empty and holds no quote character
PlainText(X) == X # "" /\ \A p \in 1..Len(X) : SubSeq(X, p, p) \notin {"'", "\""}

\* C18 as amended: for every non-empty quoted text X that holds no quote
\* character, resolving the step  Type 'X'  yields the action Type with text X
\* without invoking the vision oracle, whatever the memory content and
\* whatever target hint the caller passes, provided that the lower-cased step
\* does not contain 'tap' and has neither the wording of a key press nor that
\* of a swipe, by which an earlier rule of the resolution order takes the step.
C18_TypePlain ==
  \A X \in TypedTexts :
    /\ next_step = TypeStep(X)
    /\ PlainText(X)
    /\ ~Contains(Lower(next_step), "tap")
    /\ ~KeyWording(Lower(next_step))
    /\ ~SwipeWording(Lower(next_step))
    /\ pc # "resolve"
    => pc = "resolved" /\ action_data = Type(X) /\ ~VisionCalled

\* Type 'Daily Standup' has been resolved with a hint and with locations in
\* memory
C18_Witness ==
  /\ pc = "resolved"
  /\ next_step = "Type 'Daily Standup'"
  /\ target.bounds # None
  /\ data.element_locations # <<>>
  /\ action_data = Type("Daily Standup")
  /\ ~VisionCalled

\* the oracle has answered and its response, after the code-fence markup is
\* stripped, is not parseable JSON
Unparseable ==
  IF vision_response = None THEN FALSE
  ELSE json_loads(clean_json(vision_response.text)) = None

\* C19: when the vision oracle's response, after code-fence markup is
\* stripped, is not parseable JSON, the resolver does not raise: it returns
\* Type with the first quoted substring of the step if the step contains
\* 'type' and a quoted substring, and otherwise Wait of 1 second. A quoted
\* substring is a non-empty text between two single quotes.
C19_ParseFailure ==
  LET quoted == FindAllQuoted(next_step, 1, {"'"})
  IN Unparseable =>
       /\ pc = "resolved"
       /\ action_data = IF Contains(Lower(next_step), "type") /\ Len(quoted) > 0
                        THEN Type(quoted[1])
                        ELSE Wait(1)

\* a type step that the quoted-text rule does not take has reached the
\* oracle, whose response does not parse: the text between the single quotes
\* is typed
C19_Witness ==
  /\ pc = "resolved"
  /\ next_step = "Type '\"'"
  /\ vision_response = [text |-> "I cannot see that element."]
  /\ action_data = Type("\"")

\* the fields that an action of each kind carries
FieldsOfKind ==
  [tap |-> {"x", "y"}, type |-> {"text"}, key |-> {"keycode"},
   swipe |-> {"start_x", "start_y", "end_x", "end_y"}, wait |-> {"seconds"}]

\* C20: every action the resolver returns, for any vision-oracle response
\* (including with an empty UI dump and the step  Tap the gear icon), is a
\* well-formed ActionIntent: its kind is one of tap, type, key, swipe, wait
\* and it carries the fields of its kind.
C20_WellFormed ==
  pc = "resolved" =>
    /\ action_data.action \in DOMAIN FieldsOfKind
    /\ FieldsOfKind[action_data.action] \subseteq DOMAIN action_data

\* ------------------------------------------------------------------------
\* The queries of ADBTools over the UI dump and Planner.get_next_step's
\* post-processing, each called on its own (src/main.py 233-541, 875-887)
\* ------------------------------------------------------------------------

\* buttons and texts with Allow: a caption that is no button, a button that
\* contains the word, a button without bounds, and two whose text is the word
ButtonsDump ==
  [kind |-> "xml",
   nodes |-> <<
     Node("", "", "android.widget.FrameLayout", "", "[0,0][1080,2400]", "false", "false", 5),
     Node("Allow access", "", "android.widget.TextView", "", "[0,100][1080,160]",
          "false", "false", 0),
     Node("Allow all", "", "android.widget.Button", "", "[100,200][400,260]",
          "false", "false", 0),
     Node("ALLOW", "", "android.widget.Button", "", "", "true", "false", 0),
     Node(" allow", "", "android.widget.TextView", "", "[500,200][800,260]",
          "true", "false", 0),
     Node("Allow", "", "android.widget.Button", "", "[100,300][400,360]",
          "true", "false", 0)>>]

\* texts and accessibility labels with settings and back
KeywordsDump ==
  [kind |-> "xml",
   nodes |-> <<
     Node("", "", "android.widget.FrameLayout", "", "[0,0][1080,2400]", "false", "false", 5),
     Node("", "Open settings menu", "android.widget.ImageView", "", "[900,100][1000,200]",
          "true", "false", 0),
     Node("Settings and more", "", "android.widget.TextView", "", "[0,300][1080,400]",
          "false", "false", 0),
     Node("", "Settings", "android.widget.ImageButton", "", "[40,120][120,200]",
          "true", "false", 0),
     Node("Back", "", "android.widget.TextView", "", "malformed", "true", "false", 0),
     Node("Back", "", "android.widget.Button", "", "[100,500][400,560]",
          "true", "false", 0)>>]

\* a button whose bounds string has its corners the other way round, and a
\* node whose text and accessibility label are two halves of a phrase
OddDump ==
  [kind |-> "xml",
   nodes |-> <<
     Node("", "", "android.widget.FrameLayout", "", "[0,0][1080,2400]", "false", "false", 2),
     Node("Create", "", "android.widget.Button", "", "[400,260][100,200]",
          "true", "false", 0),
     Node("Save", "changes", "android.widget.Button", "", "[100,600][400,660]",
          "true", "false", 0)>>]

\* a label that is a leaf of the tree, and a text field below it
LeafLabelDump ==
  [kind |-> "xml",
   nodes |-> <<
     Node("", "", "android.widget.FrameLayout", "", "[0,0][1080,2400]", "false", "false", 2),
     Node("Vault name", "", "android.widget.TextView", "", "[100,300][900,360]",
          "false", "false", 0),
     Node("", "", "android.widget.EditText", "", "[100,400][900,500]",
          "true", "false", 0)>>]

\* a label that has child nodes: a text field above it, a text field without
\* bounds, and a view below it whose resource-id ends in input
GroupLabelDump ==
  [kind |-> "xml",
   nodes |-> <<
     Node("", "", "android.widget.FrameLayout", "", "[0,0][1080,2400]", "false", "false", 1),
     Node("Vault name", "", "android.view.ViewGroup", "", "[100,300][900,360]",
          "false", "false", 4),
     Node("", "", "android.widget.EditText", "", "[100,200][900,260]",
          "true", "false", 0),
     Node("", "", "android.widget.EditText", "", "", "true", "false", 0),
     Node("", "", "android.view.View", "com.app:id/name_input", "[100,352][900,452]",
          "true", "false", 0),
     Node("", "", "android.widget.EditText", "", "[100,500][900,600]",
          "true", "false", 0)>>]

\* two labels with child nodes, the first without bounds, and a text field
BadLabelDump ==
  [kind |-> "xml",
   nodes |-> <<
     Node("", "", "android.widget.FrameLayout", "", "[0,0][1080,2400]", "false", "false", 2),
     Node("Vault name", "", "android.view.ViewGroup", "", "", "false", "false", 1),
     Node("", "", "android.widget.ImageView", "", "[0,0][50,50]", "false", "false", 0),
     Node("Vault name", "", "android.view.ViewGroup", "", "[100,300][900,360]",
          "false", "false", 1),
     Node("", "", "android.widget.EditText", "", "[100,400][900,500]",
          "true", "false", 0)>>]

QueryDumps ==
  {NoDump, ButtonsDump, KeywordsDump, OddDump, LeafLabelDump, GroupLabelDump, BadLabelDump}

\* the texts that the queries are asked for
Needles == {"Allow", "allow a", "OK", "back", "Settings", "Create", "save changes",
            "Vault name"}

\* the calls of find_button_by_text
ButtonCalls == [fn : {"find_button_by_text"}, arg : Needles]

\* the keyword lists of find_bounds_by_keywords
KeywordLists ==
  {<<"settings", "back">>, <<"back", "settings">>, <<"menu", "settings">>,
   <<"more", "menu">>, <<"menu">>, <<"allow", "create">>, <<"password">>}

KeywordCalls == [fn : {"find_bounds_by_keywords"}, arg : KeywordLists]

\* the calls of find_bounds_by_text
TextCalls == [fn : {"find_bounds_by_text"}, arg : Needles]

\* the calls of find_input_field_bounds
InputCalls == [fn : {"find_input_field_bounds"}, arg : {"Vault name", "vault", "Password"}]

QueryCalls == ButtonCalls \cup KeywordCalls \cup TextCalls \cup InputCalls

\* responses of the oracle to the Planner's prompt, as analyze_image returns
\* them
PlannerTexts ==
  {"Tap the gear icon",
   "I see the sidebar.\nTap the gear icon",
   "Tap the 'A' button\nType 'hi'\nThat is all.",
   "Tap the 'A' button\n   Press enter  \n\n",
   "The vault is open.\n\n  Open the settings  \n ",
   "tap the gear icon\nthen type the name",
   "Next: Tap the gear icon",
   "Tapestry",
   "DONE",
   "FAIL: no gear\nDONE",
   " \n \n",
   "\n",
   ""}

\* the calls of Planner.get_next_step, by the oracle's response
PlannerCalls == [fn : {"get_next_step"}, arg : PlannerTexts]

\* a dump of the device and a call to make on it, or a response of the oracle
\* to post-process
QueryInit ==
  /\ pc = "query"
  /\ \/ ui \in QueryDumps /\ call \in QueryCalls
     \/ ui = NoDump /\ call \in PlannerCalls
  /\ returned = None
  /\ run = TestCases
  /\ step_count = 0
  /\ history = <<>>
  /\ visible_ui = ""
  /\ status = ""
  /\ next_step = ""
  /\ target = NoTarget
  /\ result = "None"
  /\ exit_at = "none"
  /\ ended = {}
  /\ file = None
  /\ data = load(file)
  /\ clock = 0
  /\ screen_size \in ScreenSizes
  /\ events = <<>>
  /\ varied = 0
  /\ gear_tap = None
  /\ iterations = 0
  /\ logged = Logs(data)
  /\ action_data = None
  /\ vision_response = None

\* the call returns value
Return(value) ==
  /\ returned' = [value |-> value]
  /\ pc' = "returned"
  /\ UNCHANGED <<run, step_count, history, visible_ui, status, next_step, target, result,
                 exit_at, ended, data, file, clock, ui, screen_size, events, varied, gear_tap,
                 iterations, logged, action_data, vision_response, call>>

FindButtonByText ==
  /\ pc = "query" /\ call.fn = "find_button_by_text"
  /\ Return(find_button_by_text(ui, call.arg))

FindByKeywords ==
  /\ pc = "query" /\ call.fn = "find_bounds_by_keywords"
  /\ Return(find_bounds_by_keywords(ui, call.arg))

FindByText ==
  /\ pc = "query" /\ call.fn = "find_bounds_by_text"
  /\ Return(find_bounds_by_text(ui, call.arg))

FindInputField ==
  /\ pc = "query" /\ call.fn = "find_input_field_bounds"
  /\ Return(find_input_field_bounds(ui, call.arg))

GetNextStep ==
  /\ pc = "query" /\ call.fn = "get_next_step"
  /\ Return([text |-> get_next_step(call.arg)])

QueryNext ==
  FindButtonByText \/ FindByKeywords \/ FindByText \/ FindInputField \/ GetNextStep

QuerySpec == QueryInit /\ [][QueryNext]_vars

\* the node whose bounds the call returned: the first node in document order
\* with these bounds
ReturnedNode ==
  ui.nodes[Least({i \in 1..Len(ui.nodes) : ParseBounds(ui.nodes[i].bounds) = returned.value})]

\* a node that find_button_by_text may return: Button-class or flagged
\* clickable, with valid bounds
Qualifies(n) ==
  /\ Contains(n.class, "Button") \/ n.clickable = "true"
  /\ ParseBounds(n.bounds) # None

\* the text of node n is the label, in any letter case
TextIs(n, label) == Lower(Strip(n.text)) = Lower(label)

\* the text of node n contains the label, in any letter case
TextHas(n, label) == Contains(Lower(n.text), Lower(label))

\* C21: findButtonByText(label) returns only the bounds of a node that is
\* Button-class or flagged clickable and whose text contains the label
\* (case-insensitive); a qualifying node whose text equals the label is
\* returned in preference to any node that merely contains it, whatever their
\* document order. The bounds returned are those of a node that has valid
\* bounds.
C21_ButtonOnly ==
  pc = "returned" /\ call.fn = "find_button_by_text" /\ returned.value # None =>
    /\ Qualifies(ReturnedNode) /\ TextHas(ReturnedNode, call.arg)
    /\ (\E i \in 1..Len(ui.nodes) :
          Qualifies(ui.nodes[i]) /\ TextIs(ui.nodes[i], call.arg))
       => TextIs(ReturnedNode, call.arg)

\* the clickable text " allow" has been returned for Allow, past a caption
\* and a button that contain the word and a button without bounds
C21_Witness ==
  /\ pc = "returned"
  /\ call = [fn |-> "find_button_by_text", arg |-> "Allow"]
  /\ ui = ButtonsDump
  /\ returned.value = [x1 |-> 500, y1 |-> 200, x2 |-> 800, y2 |-> 260]

\* keyword kw hits node n in pass p: exact text, exact accessibility label,
\* substring of text, substring of accessibility label
PassHit(p, kw, n) ==
  /\ ParseBounds(n.bounds) # None
  /\ CASE p = 1 -> Lower(Strip(n.text)) = Lower(kw)
       [] p = 2 -> Lower(Strip(n.desc)) = Lower(kw)
       [] p = 3 -> Contains(Lower(Strip(n.text)), Lower(kw))
       [] p = 4 -> Contains(Lower(n.desc), Lower(kw))

\* the hits <<pass, keyword, node>> of the keywords on the nodes
KeywordHits(keywords, nodes) ==
  {h \in (1..4) \X (1..Len(keywords)) \X (1..Len(nodes)) :
     PassHit(h[1], keywords[h[2]], nodes[h[3]])}

\* the first of the hits: by pass, then by keyword, then in document order
FirstHit(hits) ==
  CHOOSE h \in hits : \A g \in hits :
    \/ h[1] < g[1]
    \/ h[1] = g[1] /\ h[2] < g[2]
    \/ h[1] = g[1] /\ h[2] = g[2] /\ h[3] <= g[3]

BoundsQueries ==
  {"find_button_by_text", "find_bounds_by_keywords", "find_bounds_by_text",
   "find_input_field_bounds"}

\* C23: every bounds tuple (x1,y1,x2,y2) that a UI-tree query returns, parsed
\* from a bounds string of the form [x1,y1][x2,y2], satisfies x1 <= x2 and
\* y1 <= y2.
C23_OrderedBounds ==
  pc = "returned" /\ call.fn \in BoundsQueries /\ returned.value # None =>
    /\ returned.value.x1 <= returned.value.x2
    /\ returned.value.y1 <= returned.value.y2

\* the nodes with valid bounds of which the needle is a case-insensitive
\* substring of the text or of the accessibility label
NeedleNodes(nodes, needle) ==
  {i \in 1..Len(nodes) :
     /\ ParseBounds(nodes[i].bounds) # None
     /\ \/ Contains(Lower(nodes[i].text), Lower(needle))
        \/ Contains(Lower(nodes[i].desc), Lower(needle))}

\* C24: findByText(needle) returns the bounds of the first node in document
\* order, among nodes with valid bounds, for which the needle is a
\* case-insensitive substring of the node's text or a case-insensitive
\* substring of the node's accessibility label; it returns 'not found' if and
\* only if no such node exists.
C24_FirstByText ==
  pc = "returned" /\ call.fn = "find_bounds_by_text" /\ ui.kind = "xml" =>
    LET found == NeedleNodes(ui.nodes, call.arg)
    IN IF found = {} THEN returned.value = None
       ELSE returned.value = ParseBounds(ui.nodes[Least(found)].bounds)

\* the step in which the Supervisor answers with a status that holds both
\* words, or with one that holds FAIL and not PASS
C25_Answer ==
  events' = Append(events, "verify") =>
    /\ step_count >= 3
    /\ Contains(status', "PASS") /\ Contains(status', "FAIL") =>
         pc' = "main" /\ result' = "True" /\ exit_at' = "supervisor_pass"
    /\ ~Contains(status', "PASS") /\ Contains(status', "FAIL") /\ step_count <= 7 =>
         /\ pc' = "plan"
         /\ UNCHANGED <<run, result, exit_at, ended, step_count, data, file>>

\* C25: a Supervisor response that contains both 'PASS' and 'FAIL' ends the
\* run in Passed at any stepCount >= 3: PASS is matched before FAIL, and a
\* FAIL match alone at stepCount <= 7 is only logged.
C25_PassFirst == [][C25_Answer]_vars

\* after more than 7 steps, when a FAIL would end the run Failed, a status
\* with both words has ended it Passed
C25_Witness ==
  /\ pc = "main"
  /\ exit_at = "supervisor_pass"
  /\ result = "True"
  /\ step_count > 7
  /\ Contains(status, "PASS") /\ Contains(status, "FAIL")

\* node n is editable-class or has a resource-id ending in input, has valid
\* bounds, and its top is at or below the bottom, less 10, of the bounds lb
InputUnder(n, lb) ==
  /\ \/ Contains(n.class, "EditText") \/ Contains(n.class, "TextInput")
     \/ EndsWith(n.rid, "input")
  /\ ParseBounds(n.bounds) # None
  /\ ParseBounds(n.bounds).y1 >= lb.y2 - 10

\* the nodes whose text contains the label, in any letter case
LabelNodes(nodes, label) ==
  {i \in 1..Len(nodes) : Contains(Lower(nodes[i].text), Lower(label))}

\* some node with valid bounds satisfies the query fn for arg
Satisfiable(fn, arg, nodes) ==
  CASE fn = "find_bounds_by_text" -> NeedleNodes(nodes, arg) # {}
    [] fn = "find_button_by_text" ->
         \E i \in 1..Len(nodes) :
           Qualifies(nodes[i]) /\ Contains(Lower(Strip(nodes[i].text)), Lower(arg))
    [] fn = "find_bounds_by_keywords" -> KeywordHits(arg, nodes) # {}
    [] fn = "find_input_field_bounds" ->
         \E l \in LabelNodes(nodes, arg) :
           /\ ParseBounds(nodes[l].bounds) # None
           /\ \E i \in 1..Len(nodes) : InputUnder(nodes[i], ParseBounds(nodes[l].bounds))

\* C26: in every UI-tree query, a node whose bounds attribute is missing or
\* malformed is skipped and the scan continues with the following nodes: a
\* query never returns 'not found' while a node with valid bounds satisfies
\* it, the label node looked up by findInputBelowLabel included.
C26_SkipsMalformed ==
  pc = "returned" /\ call.fn \in BoundsQueries /\ ui.kind = "xml"
  /\ (\E i \in 1..Len(ui.nodes) : ParseBounds(ui.nodes[i].bounds) = None)
  /\ Satisfiable(call.fn, call.arg, ui.nodes)
  => returned.value # None

\* C27: findInputBelowLabel(label): whenever some node's text contains the
\* label (case-insensitive) and the first such node has valid bounds,
\* including when that node is a leaf with no child nodes, the query returns
\* the first node in document order that is editable-class (EditText/TextInput)
\* or has a resource-id ending in 'input' and whose top Y is >= the label's
\* bottom Y minus 10; otherwise it returns 'not found'.
C27_InputBelowLabel ==
  pc = "returned" /\ call.fn = "find_input_field_bounds" /\ ui.kind = "xml" =>
    LET labels == LabelNodes(ui.nodes, call.arg)
        lb == ParseBounds(ui.nodes[Least(labels)].bounds)
        inputs == {i \in 1..Len(ui.nodes) : InputUnder(ui.nodes[i], lb)}
    IN IF labels # {} /\ lb # None /\ inputs # {}
       THEN returned.value = ParseBounds(ui.nodes[Least(inputs)].bounds)
       ELSE returned.value = None

\* line i of lines begins, once trimmed, with Tap, Type, Press, DONE or FAIL
ActionLine(lines, i) ==
  \E v \in ActionVerbs : StartsWith(Strip(lines[i]), v)

\* C28: Planner post-processing returns the bottom-most response line that,
\* after trimming, begins with Tap, Type, Press, DONE or FAIL; if no line
\* does, the last non-empty line, trimmed; if the response has no non-empty
\* line, the raw response; post-processing never raises, that is every
\* response has one of these three results.
C28_ActionLine ==
  pc = "returned" /\ call.fn = "get_next_step" =>
    LET lines == SplitLines(call.arg)
        n == Len(lines)
    IN \/ \E i \in 1..n :
            /\ ActionLine(lines, i)
            /\ \A j \in (i + 1)..n : ~ActionLine(lines, j)
            /\ returned.value.text = Strip(lines[i])
       \/ /\ \A i \in 1..n : ~ActionLine(lines, i)
          /\ \E i \in 1..n :
               /\ Strip(lines[i]) # ""
               /\ \A j \in (i + 1)..n : Strip(lines[j]) = ""
               /\ returned.value.text = Strip(lines[i])
       \/ /\ \A i \in 1..n : Strip(lines[i]) = ""
          /\ returned.value.text = call.arg

\* post-processing has returned the lower of two action lines, which is
\* neither the first nor the last line of the response
C28_Witness ==
  /\ pc = "returned" /\ call.fn = "get_next_step"
  /\ \E i, j, k \in 1..Len(SplitLines(call.arg)) :
       /\ i < j /\ j < k
       /\ ActionLine(SplitLines(call.arg), i)
       /\ ActionLine(SplitLines(call.arg), j)
       /\ Strip(SplitLines(call.arg)[k]) # ""
       /\ returned.value.text = Strip(SplitLines(call.arg)[j])
       /\ returned.value.text # Strip(SplitLines(call.arg)[i])

\* ------------------------------------------------------------------------
\* Element detection of run_test_case on its own (src/main.py 1123-1263): the
\* Planner has returned a step, detection reads the dump.
\* ------------------------------------------------------------------------

\* a screen on which every detector finds something: an unlabeled icon on the
\* right of the header, a labelled settings icon, a text field under its
\* label, a switch beside its label and buttons
FullDump ==
  [kind |-> "xml",
   nodes |-> <<
     Node("", "", "", "", "[0,0][1080,2400]", "", "", 10),
     Node("", "Settings", "android.widget.ImageView", "", "[40,120][120,200]",
          "true", "false", 0),
     Node("", "", "android.widget.ImageView", "", "[960,100][1040,180]",
          "true", "false", 0),
     Node("Vault name", "", "android.widget.TextView", "", "[100,300][900,360]",
          "false", "false", 0),
     Node("", "", "android.widget.EditText", "", "[100,400][900,500]", "true", "false", 0),
     Node("Gear settings", "", "android.widget.Button", "", "[100,800][400,860]",
          "true", "false", 0),
     Node("Dark mode", "", "android.widget.TextView", "", "[100,900][700,960]",
          "false", "false", 0),
     Node("", "", "android.widget.Switch", "", "[800,900][900,960]", "true", "true", 0),
     Node("Body", "", "android.widget.Button", "", "[100,1000][400,1060]",
          "true", "false", 0),
     Node("Continue", "", "android.widget.Button", "", "[100,1200][400,1260]",
          "true", "false", 0),
     Node("Allow", "", "android.widget.Button", "", "[500,1200][800,1260]",
          "true", "false", 0)>>]

\* the same screen without the labelled settings icon
HeaderIconDump ==
  [kind |-> "xml",
   nodes |-> <<FullDump.nodes[1]>> \o SubSeq(FullDump.nodes, 3, Len(FullDump.nodes))]

\* a screen of captions and buttons: no icon, no text field, no switch
PlainDump ==
  [kind |-> "xml",
   nodes |-> <<FullDump.nodes[1], FullDump.nodes[4], FullDump.nodes[6], FullDump.nodes[7],
               FullDump.nodes[10]>>]

DetectDumps == {NoDump, FullDump, HeaderIconDump, PlainDump, FormDump}

\* steps of the Planner that several detectors apply to
DetectSteps ==
  {"Tap the settings gear",
   "Open the settings",
   "Tap the gear near the body",
   "Tap the body area below the title",
   "Tap the 'Body' text field",
   "Tap the 'Vault name' field",
   "Tap the input field and allow",
   "Tap the 'Continue' button to allow access",
   "Enable the 'Allow' switch",
   "Tap 'Dark mode' to enable it",
   "Tap the 'Continue' button",
   "Tap 'Continue' and type the name",
   "Type 'hi'",
   "Press down arrow"}

\* the state in which the first iteration of a run reaches element detection
DetectInit ==
  /\ pc = "detect"
  /\ run = TestCases
  /\ step_count = 0
  /\ next_step \in DetectSteps
  /\ history = <<next_step>>
  /\ ui \in DetectDumps
  /\ visible_ui = dump_visible_text(ui)
  /\ status = ""
  /\ target = NoTarget
  /\ result = "None"
  /\ exit_at = "none"
  /\ ended = {}
  /\ file = None
  /\ data = load(file)
  /\ clock = 0
  /\ screen_size \in ScreenSizes
  /\ events = <<"observe", "plan">>
  /\ varied = 1
  /\ gear_tap = None
  /\ iterations = 1
  /\ logged = Logs(data)
  /\ action_data = None
  /\ vision_response = None
  /\ call = None
  /\ returned = None

DetectNext == DetectTarget

DetectSpec == DetectInit /\ [][DetectNext]_vars

\* what each detector finds for the step on the dump when it is run on its
\* own, in the order settings icon, unlabeled header icon, body area, input
\* field, permission button, toggle, generic button/text/keyword match,
\* EditText for typing
DetectorBounds ==
  <<DetectSettings(NoTarget, ui, Lower(next_step)).bounds,
    DetectHeaderIcon(NoTarget, ui, Lower(next_step)).bounds,
    DetectBody(NoTarget, screen_size, Lower(next_step)).bounds,
    DetectInput(NoTarget, ui, Lower(next_step)).bounds,
    DetectPermission(NoTarget, ui, Lower(next_step)).bounds,
    DetectToggle(NoTarget, ui, Lower(next_step)).bounds,
    DetectGeneric(NoTarget, ui, next_step).bounds,
    DetectTypeField(NoTarget, ui, Lower(next_step)).bounds>>

\* the detectors that find a match
Matching == {k \in 1..Len(DetectorBounds) : DetectorBounds[k] # None}

\* C29: the target hint passed to the resolver is the bounds produced by the
\* highest-priority detector that finds a match, in the order settings-icon,
\* unlabeled-header-icon, body-area, input-field, permission-button, toggle,
\* generic button/text/keyword match, EditText-for-typing: bounds of a
\* higher-priority detector are never replaced by those of a lower one, the
\* generic matcher's included; with no match there is no hint.
C29_HighestPriority ==
  pc = "execute" =>
    target.bounds = IF Matching = {} THEN None ELSE DetectorBounds[Least(Matching)]

\* detection has kept the bounds of a detector of higher priority than the
\* generic matcher, which finds other bounds for the step
C29_Witness ==
  /\ pc = "execute"
  /\ 7 \in Matching
  /\ Least(Matching) \in 3..6
  /\ DetectorBounds[7] # DetectorBounds[Least(Matching)]
  /\ target.bounds = DetectorBounds[Least(Matching)]

\* the step contains 'swipe' or 'scroll'
SwipeStep ==
  Contains(Lower(next_step), "swipe") \/ Contains(Lower(next_step), "scroll")

\* neither the memorized-location rule nor the key-press rule applies to the
\* step
NoEarlierRule ==
  /\ MemoryRule(Mem, Lower(next_step), target.bounds) = None
  /\ KeyRule(Lower(next_step)) = None

\* the vertical swipes at x = 250 between 70% and 30% of the screen height,
\* in tenths of a pixel
SwipeUp == Swipe(250, screen_size[2] * 7, 250, screen_size[2] * 3)

SwipeDown == Swipe(250, screen_size[2] * 3, 250, screen_size[2] * 7)

\* C30 as stated: every step containing 'swipe' or 'scroll', to which no
\* earlier rule applies, resolves to a vertical Swipe at x = 250 between 30%
\* and 70% of the screen height: from 70% to 30% when the step contains 'up',
\* and from 30% to 70% when it contains 'down' and not 'up'.
C30_SwipeAny ==
  pc = "resolved" /\ SwipeStep /\ NoEarlierRule =>
    IF Contains(Lower(next_step), "up") THEN action_data = SwipeUp
    ELSE IF Contains(Lower(next_step), "down") THEN action_data = SwipeDown
    ELSE action_data \in {SwipeUp, SwipeDown}

\* C30 as amended: every step containing 'swipe' or 'scroll' and also 'up' or
\* 'down', to which no earlier rule applies, resolves to a vertical Swipe at
\* x = 250 between 30% and 70% of the screen height: from 70% to 30% when the
\* step contains 'up', and from 30% to 70% when it contains 'down' and not
\* 'up'.
C30_SwipeDirected ==
  /\ pc # "resolve"
  /\ SwipeStep
  /\ Contains(Lower(next_step), "up") \/ Contains(Lower(next_step), "down")
  /\ NoEarlierRule
  => /\ pc = "resolved"
     /\ action_data = IF Contains(Lower(next_step), "up") THEN SwipeUp ELSE SwipeDown

\* a step that contains 'scroll', 'down' and 'up' has been resolved, with a
\* hint, to the swipe from 70% to 30%
C30_Witness ==
  /\ pc = "resolved"
  /\ SwipeStep
  /\ Contains(Lower(next_step), "down") /\ Contains(Lower(next_step), "up")
  /\ NoEarlierRule
  /\ target.bounds # None
  /\ action_data = SwipeUp

\* the action of this iteration has been resolved and executed, and the step
\* is counted
Completed ==
  pc' = "loop" /\ step_count' = step_count + 1 /\ run' = run /\ history' = history

\* the iteration's error has been caught: the loop of the run has ended, the
\* run has returned to __main__ with the step not counted, and __main__ goes
\* on to the following test case
Caught ==
  /\ pc' = "main" /\ run' = run + 1
  /\ step_count' = step_count
  /\ result' = "None"

\* what a step of resolution and execution comes to
CaughtOrCompleted ==
  pc = "execute" =>
    /\ Completed \/ Caught
    /\ action_data' # None /\ ActionRaises(action_data') => Caught
    /\ (action_data' = None) => Caught

\* C31: an error raised while resolving or executing an iteration's action is
\* caught in that iteration: it ends the loop of the current run without
\* propagating to the caller, the interrupted step is not counted in
\* stepCount, and the test cases scheduled after this run still start. Every
\* step of resolution and execution either completes and counts the step or
\* is caught; an action that lacks a field it needs is caught; and after a
\* caught error with test cases left, __main__ can start the next one.
C31_Caught ==
  /\ [][CaughtOrCompleted]_vars
  /\ [](pc = "main" /\ exit_at = "execution_error" /\ run <= TestCases
          => ENABLED StartRun)

\* a run whose fourth or later step raised for lack of a field has returned,
\* and test cases are left
C31_Witness ==
  /\ pc = "main" /\ exit_at = "execution_error" /\ run <= TestCases
  /\ step_count >= 3
  /\ action_data # None /\ ActionRaises(action_data)

\* a step of Observing, Verifying or Planning does not leave run_test_case by
\* an exception
NotPropagated == pc \in {"loop", "verify", "plan"} => pc' # "crash"

\* C32: after startup, no failure of an external call made during Observing,
\* Verifying or Planning (screenshot capture, UI dump, Supervisor oracle call,
\* Planner oracle call) propagates out of run_test_case.
C32_Absorbed ==
  [][NotPropagated]_vars

\* C33: within one loop iteration, the visible-text observation and every
\* UI-tree query used for element detection are evaluated against the same UI
\* snapshot, even if the device's UI changes while the iteration is in
\* progress: once detection is done, some one dump of the device accounts
\* both for the visible text and for the target.
C33_OneSnapshot ==
  pc = "execute" =>
    \E snapshot \in UIs :
      /\ visible_ui = dump_visible_text(snapshot)
      /\ target = Detect(snapshot, screen_size, next_step)

\* the Planner's step is terminal: it holds DONE or FAIL
Terminal(step) == Contains(step, "DONE") \/ Contains(step, "FAIL")

\* what a step does to history: a run starts with none, a Planner step that
\* is not terminal is appended, every other step leaves it
HistoryStep ==
  IF pc = "main" THEN pc' = "loop" => history' = <<>>
  ELSE IF pc = "plan" /\ pc' # "crash"
  THEN history' = IF Terminal(next_step') THEN history
                  ELSE Append(history, next_step')
  ELSE history' = history

\* C34: within a run, history is append-only, receives exactly one entry per
\* non-terminal Planner step (none for DONE or FAIL), and at the start of
\* every loop iteration its length equals stepCount.
C34_History ==
  /\ [][HistoryStep]_vars
  /\ [](pc = "loop" => Len(history) = step_count)

\* an iteration starts after three steps have been recorded and counted
C34_Witness ==
  /\ pc = "loop" /\ step_count = 3 /\ Len(history) = 3
  /\ history[3] # history[1]

\* the names under which the loop memorizes the location of a tap
LoopNames == {"expand", "menu", "back"}

\* (x, y) is the centroid of the bounds of a node of the dump
CentroidOfNode(dump, x, y) ==
  /\ dump.kind = "xml"
  /\ \E i \in 1..Len(dump.nodes) :
       /\ ParseBounds(dump.nodes[i].bounds) # None
       /\ Centroid(ParseBounds(dump.nodes[i].bounds)) = [x |-> x, y |-> y]

\* C35: the loop memorizes a location under 'expand', 'menu' or 'back' only
\* with coordinates that are the centroid of bounds found in the UI dump:
\* coordinates chosen by the vision oracle or derived from a screen-size
\* heuristic are never memorized under these names. No location is stored
\* under these names when the iteration begins, so a stored one was memorized
\* by it.
C35_DumpCentroid ==
  pc = "loop" =>
    \A name \in LoopNames :
      DictHas(data.element_locations, name) =>
        CentroidOfNode(ui, DictGet(data.element_locations, name, None).x,
                           DictGet(data.element_locations, name, None).y)

\* the iteration that ends here tapped at the location memorized under
\* 'gear', for a step that the memorized-location rule resolved
TappedMemorizedGear ==
  /\ gear_tap # None /\ gear_tap.run = run
  /\ action_data = Tap(gear_tap.x, gear_tap.y)
  /\ action_data = MemoryRule(Mem, Lower(next_step), target.bounds)
  /\ GearOf(data) # None
  /\ GearOf(data).x = gear_tap.x /\ GearOf(data).y = gear_tap.y

\* the observation that follows a tap at the memorized gear location shows no
\* settings indicator, and the location is no longer stored
EvictedIfUnconfirmed ==
  /\ pc = "loop" /\ pc' \in {"verify", "plan"}
  /\ TappedMemorizedGear
  /\ ~SettingsVisible(visible_ui')
  => GearOf(data') = None

\* C36: if a Tap executed at a memorized 'gear' location is not confirmed by
\* the next observation (no settings indicator in the visible text), the
\* memorized 'gear' location is evicted, so that a later step of the same run
\* that mentions the gear is not resolved to the same memorized coordinates
\* again.
C36_Evicted == [][EvictedIfUnconfirmed]_vars

\* C37: session context does not carry over between runs: at the first
\* Observing phase of every run_test_case invocation, no pending gear
\* verification set by an earlier run (or loaded from the durable store) is
\* present.
C37_FreshSession ==
  pc = "loop" /\ iterations = 0 =>
    get_session_context(Mem, "pending_gear_location", None) = None

\* the call that this step makes is remember_element_location(name, 80, 160)
Remembers(name) ==
  /\ events' # events
  /\ SubSeq(events', Len(events') - 1, Len(events'))
       = <<"remember_element_location", name>>

\* the memory after the step
MemAfter == [data |-> data', file |-> file', clock |-> clock']

\* C38 as stated: round trip: for every prior memory content, immediately
\* after rememberLocation(n, x, y) the call recallLocation(n) returns (x, y).
C38_RoundTrip ==
  [][\A name \in ElementNames :
       Remembers(name) =>
         recall_element_location(MemAfter, name) = [x |-> 80, y |-> 160]]_vars

\* no key stored ahead of the key of name is related to it
NoneRelatedAhead(locs, name) ==
  \A i \in 1..Len(locs) :
    (\E j \in i..Len(locs) : locs[j].key = Strip(Lower(name)))
    /\ locs[i].key # Strip(Lower(name))
    => ~Related(locs[i].key, Strip(Lower(name)))

\* C38 as amended: round trip: for every prior memory content in which no key
\* that is stored ahead of the key of n, in insertion order, contains the
\* normalized n or is contained in it, immediately after
\* rememberLocation(n, x, y) the call recallLocation(n) returns (x, y).
C38_RoundTripUnrelated ==
  [][\A name \in ElementNames :
       Remembers(name) /\ NoneRelatedAhead(data'.element_locations, name) =>
         recall_element_location(MemAfter, name) = [x |-> 80, y |-> 160]]_vars

\* ' Gear Icon' has been remembered in a memory that holds 'menu' ahead of
\* it, and its recall returns the coordinates just stored
C38_Witness ==
  /\ events # <<>>
  /\ LastCall = <<"remember_element_location", " Gear Icon">>
  /\ Len(data.element_locations) >= 2
  /\ data.element_locations[1].key = "menu"
  /\ recall_element_location(Mem, " Gear Icon") = [x |-> 80, y |-> 160]

\* ------------------------------------------------------------------------
\* __main__ with two test cases left (src/main.py 1457-1489): the process
\* starts with an empty memory and runs the last two test cases.
\* ------------------------------------------------------------------------

SuiteInit ==
  /\ pc = "main"
  /\ run = TestCases - 1
  /\ step_count = 0
  /\ history = <<>>
  /\ visible_ui = ""
  /\ status = ""
  /\ next_step = ""
  /\ target = NoTarget
  /\ result = "None"
  /\ exit_at = "none"
  /\ ended = {}
  /\ file = None
  /\ data = load(file)
  /\ clock = 0
  /\ ui \in UIs
  /\ screen_size \in ScreenSizes
  /\ events = <<>>
  /\ varied = 0
  /\ gear_tap = None
  /\ iterations = 0
  /\ logged = Logs(data)
  /\ action_data = None
  /\ vision_response = None
  /\ call = None
  /\ returned = None

SuiteSpec == SuiteInit /\ [][Next]_vars

\* the ends of a run that the result has to tell apart
TerminalStates == {"planner_done", "exhausted", "execution_error"}

\* C39: the result returned by run_test_case identifies the terminal state of
\* the run: a run ended by Planner DONE, a run that ended Exhausted and a run
\* aborted by an execution error return pairwise distinguishable results. Of
\* the runs of the process that have ended, no two that ended at different
\* ones of these three places returned the same result.
C39_Identified ==
  \A a, b \in ended :
    a.at \in TerminalStates /\ b.at \in TerminalStates /\ a.at # b.at
      => a.result # b.result
====
